---- MODULE Spec2Model ----
(***************************************************************************)
(* AgentTime server (src/server/index.js): the POST /agent/execute agent   *)
(* loop, the tool executor it drives, and the process-wide state the tools *)
(* share (tokenStore, oauth2Client); the client of the event stream        *)
(* (executeAgentTask of services/api.ts); and the events state of the App  *)
(* component with the localStorage item that persists it (App.tsx).        *)
(*                                                                         *)
(* One handler invocation is an async function: it runs atomically between *)
(* two awaits, so every action below is a stretch of the handler that      *)
(* contains no await of external I/O.  The model provider and the Google   *)
(* APIs are the environment: their answers are the inputs of the actions.  *)
(***************************************************************************)
EXTENDS Naturals, Sequences, FiniteSets, TLC

\* const maxIterations = 10;
maxIterations == 10

\* Bound of the environment: the number of rounds per execution in which the
\* model provider answers with an arbitrary completion of Contents; in every
\* other round it answers with the default completion of its stub.
MaxVaried == 1

Execs == {1, 2}

Principals == {"p@example.com", "q@example.com"}

\* userEmail: null in the request body
Null == "null"

\* a JavaScript undefined value
Undefined == "undefined"

\* The tokens Google issues for the account of principal p.
TokensOf(p) == [access_token |-> p]

\* new google.auth.OAuth2(...): a client holding no credentials yet
NoCredentials == [access_token |-> Undefined]

ToolNames ==
  {"get_emails", "send_email", "log_progress", "get_calendar_events",
   "create_calendar_event"}

\* A tool name the model may produce that the tools array does not declare.
UnknownNames == {"web_search"}

\* agentName and agentRole in the request body
Scout == [agentName |-> "Scout", agentRole |-> "Researcher"]

Agents == {Scout, [agentName |-> "Quill", agentRole |-> "Writer"]}

\* task in the request body
Tasks == {"Summarise my unread mail"}

\* error.message of a failed anthropic.messages.create
ModelErrors == {"529 overloaded_error"}

\* error.message of a failed Google API request
ProviderErrors == {"socket hang up"}

\* listResponse.data.messages: the number of message ids a listing returns
ListSizes == {0, 2, 6}

Min(a, b) == IF a < b THEN a ELSE b

\* Object r has a property f. The properties tested below for truthiness
\* (result.emails, result.events, result.success, result.error) hold an
\* array, true or a non-empty string whenever they are present.
Has(r, f) == f \in DOMAIN r

(***************************************************************************)
(* Completions of the model provider                                       *)
(***************************************************************************)
TextBlock(t) == [type |-> "text", text |-> t]

ToolUseBlock(name, input) == [type |-> "tool_use", name |-> name, input |-> input]

InputOf(name) ==
  CASE name = "get_emails" -> [query |-> "is:unread"]
    [] name = "send_email" -> [to |-> "a@example.com", subject |-> "Hi", body |-> "Hello"]
    [] name = "log_progress" -> [message |-> "Checking the inbox"]
    [] name = "get_calendar_events" -> [calendarId |-> "primary"]
    [] name = "create_calendar_event" -> [summary |-> "Sync", startTime |-> "t0", endTime |-> "t1"]
    [] OTHER -> [query |-> "agents"]

Call(name) == ToolUseBlock(name, InputOf(name))

\* create_calendar_event with an attendees argument
InviteCall(attendees) ==
  ToolUseBlock("create_calendar_event",
               [summary |-> "Sync", startTime |-> "t0", endTime |-> "t1",
                attendees |-> attendees])

\* get_calendar_events with given arguments
CalendarCall(input) == ToolUseBlock("get_calendar_events", input)

\* log_progress with an explicit severity
WarnCall == ToolUseBlock("log_progress", [message |-> "Inbox is large", type |-> "warning"])

Thinking == TextBlock("Let me look at that.")

\* The arbitrary completions {content, stop_reason} of the model provider:
\* without a tool call under each stop reason, with one tool call, and with
\* text and several tool calls mixed.
Completions ==
  {[content |-> <<>>, stop_reason |-> "max_tokens"],
   [content |-> <<Thinking>>, stop_reason |-> "end_turn"],
   [content |-> <<Thinking>>, stop_reason |-> "tool_use"],
   [content |-> <<Call("log_progress")>>, stop_reason |-> "end_turn"],
   [content |-> <<Thinking, CalendarCall([maxResults |-> 3])>>, stop_reason |-> "max_tokens"],
   [content |-> <<Call("get_emails"), Thinking, Call("web_search")>>, stop_reason |-> "tool_use"],
   [content |-> <<WarnCall, Call("send_email")>>, stop_reason |-> "tool_use"],
   [content |-> <<InviteCall(<<>>), InviteCall(<<"b@example.com">>),
                  CalendarCall([calendarId |-> "team@example.com",
                                timeMin |-> "2026-01-05T00:00:00.000Z",
                                timeMax |-> "2026-01-06T00:00:00.000Z"]),
                  CalendarCall([calendarId |-> "", timeMin |-> "",
                                timeMax |-> "2026-01-06T00:00:00.000Z"])>>,
    stop_reason |-> "tool_use"]}

\* The model provider gives every tool_use block an id of its own: block i
\* of the completion of round it gets the id <<it, i>>.
Stamp(content, it) ==
  [i \in 1..Len(content) |->
    IF content[i].type = "tool_use"
      THEN [type |-> "tool_use", id |-> <<it, i>>, name |-> content[i].name,
            input |-> content[i].input]
      ELSE content[i]]

\* What a stub answers when it does not answer arbitrarily: "always_tool" is
\* the stub that requests a tool call in every round, "finishing" the one
\* that ends its turn.
StubKinds == {"always_tool", "finishing"}

StubDefault(kind) ==
  IF kind = "always_tool"
    THEN [content |-> <<Call("log_progress")>>, stop_reason |-> "tool_use"]
    ELSE [content |-> <<TextBlock("All done.")>>, stop_reason |-> "end_turn"]

(***************************************************************************)
(* Events written to the response stream                                   *)
(***************************************************************************)
\* sendEvent('log', {message, type, timestamp}): {eventType, ...data}
LogEvent(message, type) == [eventType |-> "log", message |-> message, type |-> type]

\* sendEvent('complete', { success: true })
CompleteOk == [eventType |-> "complete", success |-> TRUE]

\* sendEvent('complete', { success: false, error: error.message })
CompleteFailed(msg) == [eventType |-> "complete", success |-> FALSE, error |-> msg]

(***************************************************************************)
(* State                                                                   *)
(***************************************************************************)
VARIABLES
  exec,          \* exec[e]: the locals of one invocation of the /agent/execute handler
  tokenStore,    \* const tokenStore = loadTokens(): Map email -> {tokens, userInfo}
  oauth2Client,  \* the credentials held by the one process-wide oauth2Client
  providerLog,   \* history: every request sent to a Google API, with the credentials it carried
  client,        \* client[e]: the locals and callbacks of the executeAgentTask call behind execution e
  app,           \* the App component: its events state and the localStorage item it keeps
  modal,         \* the EventModal component, the App state that shows it, and its agent run
  auth           \* the /auth routes: the OAuth callbacks in progress and the last reply sent

vars == <<exec, tokenStore, oauth2Client, providerLog, client, app, modal, auth>>

NoResponse == [content |-> <<>>, stop_reason |-> "none"]

\* The handler before the request arrives.
IdleExec ==
  [pc |-> "idle", userEmail |-> Null, task |-> "", agentName |-> "", agentRole |-> "",
   systemPrompt |-> [agentName |-> "", agentRole |-> "", gmail |-> "", calendar |-> ""],
   stub |-> "finishing", varied |-> 0,
   iterations |-> 0, continueLoop |-> FALSE, messages |-> <<>>,
   response |-> NoResponse, blockIdx |-> 0, hasToolUse |-> FALSE,
   toolResults |-> <<>>, listed |-> 0, events |-> <<>>, ended |-> FALSE,
   \* history variables
   requests |-> 0, rounds |-> <<>>, calls |-> <<>>, raised |-> {}, failure |-> <<>>,
   listings |-> <<>>, inserts |-> <<>>, mark |-> 0, sent |-> <<>>, lists |-> <<>>]

\* loadTokens(): the token file holds, for the principals of S, the tokens
\* of their own Google account.
StoreOf(S) == [p \in S |-> [tokens |-> TokensOf(p), userInfo |-> [email |-> p]]]

\* executeAgentTask before any chunk is read: let logCounter = 0; onLog and
\* onComplete have not been called.
\* stream is the text of the response body when the model follows its
\* characters, offset the number of them read, buffer is `let buffer = ''`,
\* and chunks is history: the number of chunks the characters arrived in.
IdleClient ==
  [pc |-> "reading", cursor |-> 0, logCounter |-> 0, logs |-> <<>>, completes |-> <<>>,
   stream |-> <<>>, offset |-> 0, buffer |-> <<>>, chunks |-> 0]

\* The App component before it mounts in a browser that has never run it:
\* useState<CalendarEvent[]>([]) and no 'agenttime_events' item.
UnmountedApp == [pc |-> "unmounted", events |-> <<>>, storage |-> <<>>, created |-> 0]

\* checkServerHealth() resolved with null: the request to /health failed.
NoAnswer == [answered |-> FALSE, anthropicConfigured |-> FALSE]

\* handleRunAgents when no run has been started: the locals of the async
\* function and what its closure holds.
NoRun ==
  [pc |-> "none", health |-> NoAnswer, selectedAgents |-> <<>>, i |-> 0, e |-> 0,
   allSuccess |-> TRUE, allLogs |-> <<>>, finalStatus |-> "",
   \* the props and state of the render the function was made in
   event |-> <<>>, title |-> "", selectedAgentIds |-> <<>>, events |-> <<>>]

\* No event is selected: isEventModalOpen is false, and the component state
\* is that of an EventModal that has not been shown.  requests is the
\* history of the executeAgentTask calls the modal has made.
ClosedModal ==
  [isOpen |-> FALSE, event |-> <<>>, title |-> "", selectedAgentIds |-> <<>>,
   status |-> "SCHEDULED", logs |-> <<>>, isProcessing |-> FALSE, run |-> NoRun,
   requests |-> <<>>]

\* The two requests to /auth/google/callback the model follows.
Callbacks == {1, 2}

\* The callback handler before its request arrives.
\* asked is the credentials the userinfo request carried; held is history: the
\* credentials oauth2Client held when the answer to that request arrived.
IdleCallback ==
  [pc |-> "idle", code |-> "", tokens |-> NoCredentials, asked |-> NoCredentials,
   held |-> NoCredentials]

\* No request to an /auth route has been made.  calls counts the requests to
\* /auth/status and /auth/google/disconnect, last is the reply to the last
\* of them.
IdleAuth ==
  [cb |-> [c \in Callbacks |-> IdleCallback], calls |-> 0,
   last |-> [route |-> "", email |-> Null, ok |-> FALSE]]

InitWith(S) ==
  /\ exec = [e \in Execs |-> IdleExec]
  /\ tokenStore = StoreOf(S)
  /\ oauth2Client = NoCredentials
  /\ providerLog = {}
  /\ client = [e \in Execs |-> IdleClient]
  /\ app = UnmountedApp
  /\ modal = ClosedModal
  /\ auth = IdleAuth

\* One principal has connected a Google account, the other has not.
Init == InitWith({"p@example.com"})

\* Both principals have connected their Google accounts.
InitConc == InitWith(Principals)

(***************************************************************************)
(* The handler's steps as functions of its locals x                        *)
(***************************************************************************)
\* res.write(`data: ${JSON.stringify({ eventType, ...data })}\n\n`)
sendEvent(x, ev) == [x EXCEPT !.events = Append(@, ev)]

\* while (continueLoop && iterations < maxIterations)
LoopGuardNoCap(x) == x.continueLoop

LoopGuard(x) == x.continueLoop /\ x.iterations < maxIterations

\* lines 494-496: the loop has ended
NormalTerminationSwapped(x) ==
  [sendEvent(sendEvent(x, CompleteOk), LogEvent("Task execution completed", "success"))
     EXCEPT !.ended = TRUE, !.pc = "done"]

NormalTerminationNoEnd(x) ==
  [sendEvent(sendEvent(x, LogEvent("Task execution completed", "success")), CompleteOk)
     EXCEPT !.pc = "done"]

NormalTermination(x) ==
  [sendEvent(sendEvent(x, LogEvent("Task execution completed", "success")), CompleteOk)
     EXCEPT !.ended = TRUE, !.pc = "done"]

\* lines 498-503: catch (error) of the handler
TopLevelCatchNoPrefix(x, msg) ==
  [sendEvent(sendEvent(x, LogEvent(msg, "error")), CompleteFailed(msg))
     EXCEPT !.ended = TRUE, !.pc = "done"]

TopLevelCatchNoComplete(x, msg) ==
  [sendEvent(x, LogEvent("Execution failed: " \o msg, "error"))
     EXCEPT !.ended = TRUE, !.pc = "done"]

TopLevelCatchHangs(x, msg) ==
  [sendEvent(x, LogEvent("Execution failed: " \o msg, "error")) EXCEPT !.pc = "hung"]

TopLevelCatch(x, msg) ==
  [sendEvent(sendEvent(x, LogEvent("Execution failed: " \o msg, "error")),
             CompleteFailed(msg))
     EXCEPT !.ended = TRUE, !.pc = "done"]

\* const tools = [...]: the names of the tools the array declares, in its
\* order.
tools ==
  <<"get_emails", "send_email", "log_progress", "get_calendar_events",
    "create_calendar_event">>

\* The arguments of anthropic.messages.create, lines 430-436.
CreateRequestLastTurn(x) ==
  [model |-> "claude-sonnet-4-20250514", max_tokens |-> 4096, system |-> x.systemPrompt,
   tools |-> tools, messages |-> <<x.messages[Len(x.messages)]>>]

CreateRequest(x) ==
  [model |-> "claude-sonnet-4-20250514", max_tokens |-> 4096, system |-> x.systemPrompt,
   tools |-> tools, messages |-> x.messages]

\* The head of the while loop: either the next round starts, up to its
\* await of anthropic.messages.create, or the loop is left.
LoopHead(x) ==
  IF LoopGuard(x)
    THEN [x EXCEPT !.iterations = @ + 1, !.requests = @ + 1,
                   !.sent = Append(@, CreateRequest(x)),
                   !.response = NoResponse, !.pc = "awaitModel"]
    ELSE NormalTermination([x EXCEPT !.response = NoResponse])

(***************************************************************************)
(* executeTool                                                             *)
(***************************************************************************)
\* The cases of executeTool that call a Google API.
NeedsGoogle(toolName) ==
  toolName \in {"get_emails", "send_email", "get_calendar_events", "create_calendar_event"}

\* !(!userEmail || !tokenStore.has(userEmail))
Connected(userEmail) == userEmail # Null /\ userEmail \in DOMAIN tokenStore

\* The payload of the guards at lines 223-225, 273-275, 304-306, 339-341.
NotConnectedErrorReworded(toolName) ==
  IF toolName \in {"get_emails", "send_email"}
    THEN [error |-> "Gmail is not connected."]
    ELSE [error |-> "Google Calendar is not connected."]

NotConnectedError(toolName) ==
  IF toolName \in {"get_emails", "send_email"}
    THEN [error |-> "Gmail not connected. Please connect your Google account first."]
    ELSE [error |-> "Google Calendar not connected. Please connect your Google account first."]

\* default: return { error: `Unknown tool: ${toolName}` }
UnknownToolUnnamed(toolName) == [error |-> "Unknown tool"]

UnknownTool(toolName) == [error |-> "Unknown tool: " \o toolName]

\* executeTool when it returns without awaiting a Google API: a guard that
\* fails, log_progress, or the default case.
ExecuteLocalNoProgressCase(toolName, toolInput) ==
  IF NeedsGoogle(toolName)
    THEN NotConnectedError(toolName)
    ELSE UnknownTool(toolName)

ExecuteLocal(toolName, toolInput) ==
  IF NeedsGoogle(toolName)
    THEN NotConnectedError(toolName)
    ELSE IF toolName = "log_progress"
      THEN [logged |-> TRUE, message |-> toolInput.message,
            type |-> IF Has(toolInput, "type") THEN toolInput.type ELSE "info"]
      ELSE UnknownTool(toolName)

\* The first Google API method each case calls.
FirstApi(toolName) ==
  CASE toolName = "get_emails" -> "gmail.users.messages.list"
    [] toolName = "send_email" -> "gmail.users.messages.send"
    [] toolName = "get_calendar_events" -> "calendar.events.list"
    [] toolName = "create_calendar_event" -> "calendar.events.insert"

\* A request to a Google API made for tool call id of execution e: the API
\* client authenticates it with the credentials oauth2Client holds when the
\* request is made.
ProviderRequest(e, id, api, credentials) ==
  [exec |-> e, call |-> id, api |-> api, auth |-> credentials]

\* const event = {...} and lines 361-363 (description and location are not
\* modelled): the requestBody of calendar.events.insert.
EventBody(toolInput) ==
  IF Has(toolInput, "attendees") /\ Len(toolInput.attendees) > 0
    THEN [summary |-> toolInput.summary,
          attendees |-> [i \in 1..Len(toolInput.attendees) |->
                           [email |-> toolInput.attendees[i]]]]
    ELSE [summary |-> toolInput.summary]

\* The arguments of calendar.events.insert, lines 365-369. An array is
\* truthy in JavaScript, the empty one included; a missing property is
\* undefined, which is falsy.
InsertRequest(block) ==
  [call |-> block.id, calendarId |-> "primary", requestBody |-> EventBody(block.input),
   sendUpdates |-> IF Has(block.input, "attendees") THEN "all" ELSE "none"]

\* new Date(): the clock of the server, in milliseconds, when a tool is
\* invoked
Nows == {1000000}

\* date.toISOString() of the instant ms
ISOString(ms) == "Date(" \o ToString(ms) \o ").toISOString()"

\* toolInput[f] || default for a string argument: a missing argument is
\* undefined and the empty string is falsy.
OrElse(toolInput, f, default) ==
  IF Has(toolInput, f) /\ toolInput[f] # "" THEN toolInput[f] ELSE default

\* The arguments of calendar.events.list, lines 312-322 (maxResults,
\* singleEvents and orderBy are not modelled), for a call made at now.
ListRequestOneDay(block, now) ==
  [call |-> block.id, now |-> now,
   calendarId |-> OrElse(block.input, "calendarId", "primary"),
   timeMin |-> OrElse(block.input, "timeMin", ISOString(now)),
   timeMax |-> OrElse(block.input, "timeMax", ISOString(now + 24 * 60 * 60 * 1000))]

ListRequest(block, now) ==
  [call |-> block.id, now |-> now,
   calendarId |-> OrElse(block.input, "calendarId", "primary"),
   timeMin |-> OrElse(block.input, "timeMin", ISOString(now)),
   timeMax |-> OrElse(block.input, "timeMax", ISOString(now + 7 * 24 * 60 * 60 * 1000))]

\* What the provider's answer becomes in the cases that await one request.
ProviderResult(toolName, toolInput, n) ==
  CASE toolName = "send_email" -> [success |-> TRUE, messageId |-> "msg-1"]
    [] toolName = "get_calendar_events" ->
         [events |-> [i \in 1..n |-> [id |-> i]], count |-> n]
    [] toolName = "create_calendar_event" ->
         [success |-> TRUE, eventId |-> "evt-1", summary |-> toolInput.summary]

\* The mailbox: the number of characters of the decoded body of message i
\* of a listing (a message without a text body has the body '').
BodyLength(i) == <<1200, 500, 0, 501, 499, 30>>[i]

\* body.substring(0, 500) of a body of len characters, as the number of
\* characters it keeps
substring(len, from, to) == Min(len, to) - Min(len, from)

\* One message of fullMessages: { id: msg.id, ..., body: body.substring(0, 500) }
FullMessage(i) == [id |-> i, body |-> substring(BodyLength(i), 0, 500)]

\* return { emails: fullMessages, count: messages.length }
\* with fullMessages built from messages.slice(0, 5)
EmailsResultCountsHydrated(n) ==
  [emails |-> [i \in 1..Min(n, 5) |-> FullMessage(i)], count |-> Min(n, 5)]

EmailsResult(n) == [emails |-> [i \in 1..Min(n, 5) |-> FullMessage(i)], count |-> n]

(***************************************************************************)
(* The tool_use branch of the round                                        *)
(***************************************************************************)
\* lines 451-463: the log event that reports result
\* line 452: { message: block.input.message, type: block.input.type || 'info' }
ProgressLogAsInfo(input) == LogEvent(input.message, "info")

ProgressLog(input) ==
  LogEvent(input.message, IF Has(input, "type") THEN input.type ELSE "info")

ResultLog(block, result) ==
  IF block.name = "log_progress"
    THEN <<ProgressLog(block.input)>>
  ELSE IF block.name = "get_emails" /\ Has(result, "emails")
    THEN <<LogEvent("Retrieved " \o ToString(Len(result.emails)) \o " emails ("
                      \o ToString(result.count) \o " total matching)", "success")>>
  ELSE IF block.name = "send_email" /\ Has(result, "success")
    THEN <<LogEvent("Email sent successfully", "success")>>
  ELSE IF block.name = "get_calendar_events" /\ Has(result, "events")
    THEN <<LogEvent("Retrieved " \o ToString(Len(result.events)) \o " calendar events",
                    "success")>>
  ELSE IF block.name = "create_calendar_event" /\ Has(result, "success")
    THEN <<LogEvent("Calendar event created: \"" \o result.summary \o "\"", "success")>>
  ELSE IF Has(result, "error")
    THEN <<LogEvent("Tool error: " \o result.error, "error")>>
  ELSE <<>>

\* toolResults.push({ type: 'tool_result', tool_use_id: block.id,
\*                    content: JSON.stringify(result) })
ResultEntryFlagged(block, result) ==
  [type |-> "tool_result", tool_use_id |-> block.id, content |-> result, is_error |-> TRUE]

ResultEntry(block, result) ==
  [type |-> "tool_result", tool_use_id |-> block.id, content |-> result]

\* toolResults.push({ ..., content: JSON.stringify({ error: error.message }),
\*                    is_error: true })
ErrorEntryUnflagged(block, msg) ==
  [type |-> "tool_result", tool_use_id |-> block.id, content |-> [error |-> msg]]

ErrorEntry(block, msg) ==
  [type |-> "tool_result", tool_use_id |-> block.id, content |-> [error |-> msg],
   is_error |-> TRUE]

\* lines 470-477: catch (error) around the tool call
ToolRaisedNoResult(x, block, msg) ==
  [sendEvent(x, LogEvent("Tool execution failed: " \o msg, "error"))
     EXCEPT !.blockIdx = @ + 1, !.pc = "blocks"]

ToolRaisedSilent(x, block, msg) ==
  [x EXCEPT !.toolResults = Append(@, ErrorEntry(block, msg)),
            !.blockIdx = @ + 1, !.pc = "blocks"]

ToolRaised(x, block, msg) ==
  [sendEvent(x, LogEvent("Tool execution failed: " \o msg, "error"))
     EXCEPT !.toolResults = Append(@, ErrorEntry(block, msg)),
            !.blockIdx = @ + 1, !.pc = "blocks"]

\* lines 449-469: executeTool has returned result
ToolReturned(x, block, result) ==
  [x EXCEPT !.events = @ \o ResultLog(block, result),
            !.toolResults = Append(@, ResultEntry(block, result)),
            !.blockIdx = @ + 1, !.pc = "blocks"]

(***************************************************************************)
(* The end of a round                                                      *)
(***************************************************************************)
\* lines 482-485
PushRoundAlways(x) ==
  [x EXCEPT !.messages =
     @ \o <<[role |-> "assistant", content |-> x.response.content],
            [role |-> "user", content |-> x.toolResults]>>]

PushRoundAssistantOnly(x) ==
  IF x.hasToolUse
    THEN [x EXCEPT !.messages =
            Append(@, [role |-> "assistant", content |-> x.response.content])]
    ELSE x

PushRound(x) ==
  IF x.hasToolUse
    THEN [x EXCEPT !.messages =
            @ \o <<[role |-> "assistant", content |-> x.response.content],
                   [role |-> "user", content |-> x.toolResults]>>]
    ELSE x

\* lines 487-491
UpdateContinueEndTurnOnly(x) ==
  IF x.response.stop_reason = "end_turn" /\ ~x.hasToolUse
    THEN [x EXCEPT !.continueLoop = FALSE]
    ELSE x

UpdateContinue(x) ==
  IF x.response.stop_reason = "end_turn" /\ ~x.hasToolUse
    THEN [x EXCEPT !.continueLoop = FALSE]
    ELSE IF ~x.hasToolUse
      THEN [x EXCEPT !.continueLoop = FALSE]
      ELSE x

(***************************************************************************)
(* Actions of execution e                                                  *)
(***************************************************************************)
\* ${userEmail ? 'Connected as ' + userEmail : 'Not connected'}
IntegrationStatus(userEmail) ==
  IF userEmail # Null THEN "Connected as " \o userEmail ELSE "Not connected"

\* const systemPrompt = `...`: the template, as the record of the values it
\* interpolates.
SystemPrompt(agentName, agentRole, userEmail) ==
  [agentName |-> agentName, agentRole |-> agentRole,
   gmail |-> IntegrationStatus(userEmail),
   calendar |-> IntegrationStatus(userEmail)]

\* const messages = [{ role: 'user', content: `Execute this task: ${task}` }];
SeedMessagesBare(task) == <<[role |-> "user", content |-> task]>>

SeedMessages(task) == <<[role |-> "user", content |-> "Execute this task: " \o task]>>

\* POST /agent/execute arrives: lines 387-430, up to the first await.
Start(e, kinds, agents, tasks) ==
  /\ exec[e].pc = "idle"
  /\ \E u \in Principals \cup {Null}, k \in kinds, task \in tasks, a \in agents :
       LET x0 == [exec[e] EXCEPT !.userEmail = u, !.stub = k, !.task = task,
                                 !.agentName = a.agentName, !.agentRole = a.agentRole]
           x1 == sendEvent(x0, LogEvent("Starting task execution...", "info"))
           x2 == sendEvent(x1, LogEvent("Agent \"" \o a.agentName \o "\" (" \o a.agentRole
                                          \o ") is analyzing the task...", "info"))
           x3 == [x2 EXCEPT
                    !.systemPrompt = SystemPrompt(a.agentName, a.agentRole, u),
                    !.messages = SeedMessages(task),
                    !.continueLoop = TRUE, !.iterations = 0]
       IN exec' = [exec EXCEPT ![e] = LoopHead(x3)]
  /\ UNCHANGED <<tokenStore, oauth2Client, providerLog>>

\* The completion arrives: let hasToolUse = false; const toolResults = [];
Receive(e, r, varied) ==
  LET x == exec[e]
      content == Stamp(r.content, x.iterations)
      n == Cardinality({i \in 1..Len(content) : content[i].type = "tool_use"})
  IN exec' = [exec EXCEPT ![e] =
       [x EXCEPT !.response = [content |-> content, stop_reason |-> r.stop_reason],
                 !.hasToolUse = FALSE, !.toolResults = <<>>, !.blockIdx = 1,
                 !.mark = Len(x.events),
                 !.pc = "blocks", !.varied = @ + varied,
                 !.rounds = Append(@, [tools |-> n, stop_reason |-> r.stop_reason])]]

ModelReturns(e) ==
  /\ exec[e].pc = "awaitModel"
  /\ \/ Receive(e, StubDefault(exec[e].stub), 0)
     \/ /\ exec[e].varied < MaxVaried
        /\ \E r \in Completions : Receive(e, r, 1)
  /\ UNCHANGED <<tokenStore, oauth2Client, providerLog>>

\* anthropic.messages.create rejects: the handler's catch runs.
ModelFails(e) ==
  /\ exec[e].pc = "awaitModel"
  /\ \E msg \in ModelErrors :
       exec' = [exec EXCEPT ![e] = [TopLevelCatch(exec[e], msg) EXCEPT !.failure = <<msg>>]]
  /\ UNCHANGED <<tokenStore, oauth2Client, providerLog>>

CurrentBlock(e) == exec[e].response.content[exec[e].blockIdx]

InRound(e) ==
  /\ exec[e].pc = "blocks"
  /\ exec[e].blockIdx <= Len(exec[e].response.content)

\* if (block.type === 'text')
TextStep(e) ==
  /\ InRound(e)
  /\ CurrentBlock(e).type = "text"
  /\ exec' = [exec EXCEPT ![e] =
       [sendEvent(exec[e], LogEvent(CurrentBlock(e).text, "info"))
          EXCEPT !.blockIdx = @ + 1]]
  /\ UNCHANGED <<tokenStore, oauth2Client, providerLog>>

\* lines 445-446, and the call of executeTool
Announce(x, block) ==
  [sendEvent(x, LogEvent("Using tool: " \o block.name, "info"))
     EXCEPT !.hasToolUse = TRUE,
            !.calls = Append(@, [id |-> block.id, name |-> block.name,
                                 connected |-> Connected(x.userEmail)])]

\* A tool call that executeTool answers without a Google API.
LocalToolStep(e) ==
  /\ InRound(e)
  /\ CurrentBlock(e).type = "tool_use"
  /\ ~(NeedsGoogle(CurrentBlock(e).name) /\ Connected(exec[e].userEmail))
  /\ LET block == CurrentBlock(e)
     IN exec' = [exec EXCEPT ![e] =
          ToolReturned(Announce(exec[e], block), block,
                       ExecuteLocal(block.name, block.input))]
  /\ UNCHANGED <<tokenStore, oauth2Client, providerLog>>

\* A tool call that is started but not awaited.
GoogleToolStepNotAwaited(e) ==
  /\ InRound(e)
  /\ CurrentBlock(e).type = "tool_use"
  /\ NeedsGoogle(CurrentBlock(e).name)
  /\ Connected(exec[e].userEmail)
  /\ exec' = [exec EXCEPT ![e] =
       [Announce(exec[e], CurrentBlock(e)) EXCEPT !.blockIdx = @ + 1]]
  /\ UNCHANGED <<tokenStore, oauth2Client, providerLog>>

\* A tool call of a connected principal: const { tokens } =
\* tokenStore.get(userEmail); oauth2Client.setCredentials(tokens); and the
\* first request to the API, which executeTool awaits.
GoogleToolStep(e) ==
  /\ InRound(e)
  /\ CurrentBlock(e).type = "tool_use"
  /\ NeedsGoogle(CurrentBlock(e).name)
  /\ Connected(exec[e].userEmail)
  /\ LET block == CurrentBlock(e)
         tokens == tokenStore[exec[e].userEmail].tokens
     IN /\ oauth2Client' = tokens
        /\ providerLog' = providerLog \cup
             {ProviderRequest(e, block.id, FirstApi(block.name), tokens)}
        /\ \E now \in Nows :
             exec' = [exec EXCEPT ![e] =
               [Announce(exec[e], block) EXCEPT
                  !.pc = IF block.name = "get_emails" THEN "awaitList" ELSE "awaitTool",
                  !.inserts = IF block.name = "create_calendar_event"
                                THEN Append(@, InsertRequest(block)) ELSE @,
                  !.lists = IF block.name = "get_calendar_events"
                              THEN Append(@, ListRequest(block, now)) ELSE @]]
  /\ UNCHANGED tokenStore

AwaitedBlock(e) == exec[e].response.content[exec[e].blockIdx]

\* The request of send_email, get_calendar_events or create_calendar_event
\* is answered: executeTool returns.
\* response.data.items: the number of events a listing returns
CalendarSizes == {2}

ProviderReturns(e) ==
  /\ exec[e].pc = "awaitTool"
  /\ \E n \in CalendarSizes :
       /\ (AwaitedBlock(e).name # "get_calendar_events" => n = 0)
       /\ exec' = [exec EXCEPT ![e] =
            ToolReturned(exec[e], AwaitedBlock(e),
                         ProviderResult(AwaitedBlock(e).name, AwaitedBlock(e).input, n))]
  /\ UNCHANGED <<tokenStore, oauth2Client, providerLog>>

\* A request to a Google API rejects: executeTool throws into the catch
\* around it.
ProviderRaises(e) ==
  /\ exec[e].pc \in {"awaitTool", "awaitList", "awaitGets"}
  /\ \E msg \in ProviderErrors :
       exec' = [exec EXCEPT ![e] =
         [ToolRaised(exec[e], AwaitedBlock(e), msg)
            EXCEPT !.raised = @ \cup {AwaitedBlock(e).id}]]
  /\ UNCHANGED <<tokenStore, oauth2Client, providerLog>>

\* gmail.users.messages.list is answered with n message ids: lines 236-243.
\* Promise.all starts one gmail.users.messages.get per message of
\* messages.slice(0, 5), each through the shared oauth2Client as it is now.
ListReturns(e) ==
  /\ exec[e].pc = "awaitList"
  /\ \E n \in ListSizes :
       IF n = 0
         THEN /\ exec' = [exec EXCEPT ![e] =
                   [ToolReturned(exec[e], AwaitedBlock(e), EmailsResult(0))
                      EXCEPT !.listings = Append(@, [id |-> AwaitedBlock(e).id, n |-> 0])]]
              /\ UNCHANGED providerLog
         ELSE /\ exec' = [exec EXCEPT ![e] =
                   [@ EXCEPT !.listed = n, !.pc = "awaitGets",
                             !.listings = Append(@, [id |-> AwaitedBlock(e).id, n |-> n])]]
              /\ providerLog' = providerLog \cup
                   {ProviderRequest(e, AwaitedBlock(e).id, "gmail.users.messages.get",
                                    oauth2Client)}
  /\ UNCHANGED <<tokenStore, oauth2Client>>

\* Every gmail.users.messages.get is answered: lines 245-269.
GetsReturn(e) ==
  /\ exec[e].pc = "awaitGets"
  /\ exec' = [exec EXCEPT ![e] =
       [ToolReturned(exec[e], AwaitedBlock(e), EmailsResult(exec[e].listed))
          EXCEPT !.listed = 0]]
  /\ UNCHANGED <<tokenStore, oauth2Client, providerLog>>

\* The for loop over response.content is over: lines 482-492 and the loop
\* head, up to the next await or to res.end().
RoundEnd(e) ==
  /\ exec[e].pc = "blocks"
  /\ exec[e].blockIdx > Len(exec[e].response.content)
  /\ exec' = [exec EXCEPT ![e] = LoopHead(UpdateContinue(PushRound(exec[e])))]
  /\ UNCHANGED <<tokenStore, oauth2Client, providerLog>>

Step(e, kinds, agents, tasks) ==
  \/ Start(e, kinds, agents, tasks)
  \/ ModelReturns(e)
  \/ ModelFails(e)
  \/ TextStep(e)
  \/ LocalToolStep(e)
  \/ GoogleToolStep(e)
  \/ ProviderReturns(e)
  \/ ProviderRaises(e)
  \/ ListReturns(e)
  \/ GetsReturn(e)
  \/ RoundEnd(e)

\* One request to /agent/execute, against either stub of the model provider.
Next == Step(1, StubKinds, {Scout}, Tasks) /\ UNCHANGED <<client, app, modal, auth>>

Spec == Init /\ [][Next]_vars

\* Two requests served concurrently by the one process.
NextConc == (\E e \in Execs : Step(e, {"finishing"}, {Scout}, Tasks)) /\ UNCHANGED <<client, app, modal, auth>>

SpecConc == InitConc /\ [][NextConc]_vars

\* The scheduling of Node's event loop and the claim's proviso that every
\* model request and every Google request is eventually answered or fails:
\* a step of the execution that can be taken is eventually taken.
LiveSpec == Init /\ [][Next]_vars /\ WF_vars(Next)

\* One request to /agent/execute made for any of the agents.
NextAgents == Step(1, StubKinds, Agents, Tasks) /\ UNCHANGED <<client, app, modal, auth>>

SpecAgents == Init /\ [][NextAgents]_vars

(***************************************************************************)
(* The /auth routes                                                        *)
(***************************************************************************)
\* Bound of the environment: the number of requests to /auth/status and
\* /auth/google/disconnect.
MaxAuthCalls == 2

\* tokenStore.set(key, value)
MapSet(store, key, value) ==
  [k \in DOMAIN store \cup {key} |-> IF k = key THEN value ELSE store[k]]

\* tokenStore.delete(key)
MapDelete(store, key) == [k \in DOMAIN store \ {key} |-> store[k]]

\* oauth2.userinfo.get(): Google answers with the account the credentials
\* of the request belong to.
UserInfoOf(credentials) == [email |-> credentials.access_token]

\* GET /auth/google/callback?code=...: line 77 and the call of getToken.  The
\* code is the one Google issued when principal p gave consent.
CallbackArrives(c) ==
  /\ auth.cb[c].pc = "idle"
  /\ \E p \in Principals :
       auth' = [auth EXCEPT !.cb[c] = [@ EXCEPT !.pc = "awaitToken", !.code = p]]
  /\ UNCHANGED <<exec, tokenStore, oauth2Client, providerLog, client, app, modal>>

\* Mutant of TokenReturns: the userinfo request is made with the credentials
\* the client held before setCredentials.
TokenReturnsStaleCredentials(c) ==
  /\ auth.cb[c].pc = "awaitToken"
  /\ LET tokens == TokensOf(auth.cb[c].code)
     IN /\ oauth2Client' = tokens
        /\ auth' = [auth EXCEPT !.cb[c] =
             [@ EXCEPT !.pc = "awaitUserInfo", !.tokens = tokens, !.asked = oauth2Client]]
  /\ UNCHANGED <<exec, tokenStore, providerLog, client, app, modal>>

\* getToken(code) resolves with the tokens of the code's account: lines
\* 81-84, oauth2Client.setCredentials(tokens) and the userinfo request, which
\* the API client authenticates with the credentials oauth2Client holds
\* when the request is made.
TokenReturns(c) ==
  /\ auth.cb[c].pc = "awaitToken"
  /\ LET tokens == TokensOf(auth.cb[c].code)
     IN /\ oauth2Client' = tokens
        /\ auth' = [auth EXCEPT !.cb[c] =
             [@ EXCEPT !.pc = "awaitUserInfo", !.tokens = tokens, !.asked = tokens]]
  /\ UNCHANGED <<exec, tokenStore, providerLog, client, app, modal>>

\* userinfo.get() resolves: lines 86-94, tokenStore.set(userId, {tokens,
\* userInfo}) and the redirect to the frontend.
UserInfoReturns(c) ==
  /\ auth.cb[c].pc = "awaitUserInfo"
  /\ LET userInfo == UserInfoOf(auth.cb[c].asked)
         userId == userInfo.email
     IN tokenStore' = MapSet(tokenStore, userId,
                             [tokens |-> auth.cb[c].tokens, userInfo |-> userInfo])
  /\ auth' = [auth EXCEPT !.cb[c] = [@ EXCEPT !.pc = "redirected", !.held = oauth2Client]]
  /\ UNCHANGED <<exec, oauth2Client, providerLog, client, app, modal>>

\* getToken or userinfo.get() rejects: the catch at lines 95-99.
CallbackFails(c) ==
  /\ auth.cb[c].pc \in {"awaitToken", "awaitUserInfo"}
  /\ auth' = [auth EXCEPT !.cb[c].pc = "failed"]
  /\ UNCHANGED <<exec, tokenStore, oauth2Client, providerLog, client, app, modal>>

\* GET /auth/status?email=...
AuthStatus ==
  /\ auth.calls < MaxAuthCalls
  /\ \E email \in Principals \cup {Null} :
       auth' = [auth EXCEPT
         !.calls = @ + 1,
         !.last = [route |-> "status", email |-> email,
                   ok |-> email # Null /\ email \in DOMAIN tokenStore]]
  /\ UNCHANGED <<exec, tokenStore, oauth2Client, providerLog, client, app, modal>>

\* Mutant of Disconnect: the reply is success whether or not the entry was there.
DisconnectAlwaysSucceeds ==
  /\ auth.calls < MaxAuthCalls
  /\ \E email \in Principals \cup {Null} :
       /\ tokenStore' = MapDelete(tokenStore, email)
       /\ auth' = [auth EXCEPT
            !.calls = @ + 1,
            !.last = [route |-> "disconnect", email |-> email, ok |-> TRUE]]
  /\ UNCHANGED <<exec, oauth2Client, providerLog, client, app, modal>>

\* POST /auth/google/disconnect {email}
Disconnect ==
  /\ auth.calls < MaxAuthCalls
  /\ \E email \in Principals \cup {Null} :
       IF email # Null /\ email \in DOMAIN tokenStore
         THEN /\ tokenStore' = MapDelete(tokenStore, email)
              /\ auth' = [auth EXCEPT
                   !.calls = @ + 1,
                   !.last = [route |-> "disconnect", email |-> email, ok |-> TRUE]]
         ELSE /\ UNCHANGED tokenStore
              /\ auth' = [auth EXCEPT
                   !.calls = @ + 1,
                   !.last = [route |-> "disconnect", email |-> email, ok |-> FALSE]]
  /\ UNCHANGED <<exec, oauth2Client, providerLog, client, app, modal>>

\* One execution, for any principal, while principals disconnect and ask for
\* their status.
NextAuth ==
  \/ Step(1, {"finishing"}, {Scout}, Tasks) /\ UNCHANGED <<client, app, modal, auth>>
  \/ Disconnect
  \/ AuthStatus

SpecAuth == InitConc /\ [][NextAuth]_vars

\* Two OAuth callbacks and one execution of a principal.
NextOAuth ==
  \/ /\ Step(1, {"finishing"}, {Scout}, Tasks)
     /\ exec'[1].userEmail = "p@example.com"
     /\ UNCHANGED <<client, app, modal, auth>>
  \/ \E c \in Callbacks : CallbackArrives(c)
  \/ \E c \in Callbacks : TokenReturns(c)
  \/ \E c \in Callbacks : UserInfoReturns(c)
  \/ \E c \in Callbacks : CallbackFails(c)

SpecOAuth == Init /\ [][NextOAuth]_vars

(***************************************************************************)
(* The client of one execution: executeAgentTask of services/api.ts        *)
(***************************************************************************)
\* res.write(`data: ${JSON.stringify({ eventType, ...data })}\n\n`): the line
\* of the stream that carries a record.
WireLine(ev) == [prefix |-> "data: ", json |-> ev]

\* JSON.parse(line.slice(6)) and the read of data.type: a property the
\* parsed object does not have reads as undefined.
DataType(line) == IF Has(line.json, "type") THEN line.json.type ELSE Undefined

\* What onLog is called with: id, message and type (the timestamp is not
\* modelled).
OnLogEntry(n, data) == [id |-> "log-" \o ToString(n), message |-> data.message, type |-> data.type]

\* Lines 96-112 for one line of the chunk.
Dispatch(c, line) ==
  IF line.prefix # "data: " THEN c
  ELSE IF DataType(line) = "log"
    THEN [c EXCEPT !.logCounter = @ + 1,
                   !.logs = Append(@, OnLogEntry(c.logCounter + 1, line.json))]
  ELSE IF DataType(line) = "complete"
    THEN [c EXCEPT !.completes = Append(@, line.json.success)]
  ELSE c

\* for (const line of lines): the records cursor+1..upto of the stream
RECURSIVE DispatchAll(_, _, _, _)
DispatchAll(c, events, from, upto) ==
  IF from > upto THEN c
  ELSE DispatchAll(Dispatch(c, WireLine(events[from])), events, from + 1, upto)

\* reader.read() resolves with a chunk: every record the server has written
\* up to some point after the last chunk.
ClientRead(e) ==
  /\ client[e].pc = "reading"
  /\ \E upto \in (client[e].cursor + 1)..Len(exec[e].events) :
       client' = [client EXCEPT ![e] =
         [DispatchAll(client[e], exec[e].events, client[e].cursor + 1, upto)
            EXCEPT !.cursor = upto]]
  /\ UNCHANGED <<exec, tokenStore, oauth2Client, providerLog, app, modal, auth>>

\* reader.read() resolves with done after res.end(): break, and the function
\* returns.
ClientDone(e) ==
  /\ client[e].pc = "reading"
  /\ exec[e].ended
  /\ client[e].cursor = Len(exec[e].events)
  /\ client' = [client EXCEPT ![e].pc = "returned"]
  /\ UNCHANGED <<exec, tokenStore, oauth2Client, providerLog, app, modal, auth>>

\* fetch or reader.read() rejects (the connection is lost): lines 115-124.
ClientCatch(e) ==
  /\ client[e].pc = "reading"
  /\ client' = [client EXCEPT ![e] =
       [@ EXCEPT !.pc = "caught",
                 !.logs = Append(@, [id |-> "error",
                                     message |-> "Execution failed: Failed to fetch",
                                     type |-> "error"]),
                 !.completes = Append(@, FALSE)]]
  /\ UNCHANGED <<exec, tokenStore, oauth2Client, providerLog, app, modal, auth>>

(***************************************************************************)
(* The buffer of executeAgentTask: lines 84-114 over the characters of the *)
(* response body.  A text is the sequence of its characters.               *)
(***************************************************************************)
\* Bound of the environment: the number of lines of a response body.
MaxLines == 2

\* The character '\n'
LF == "LF"

\* 'data: '
DataPrefix == <<"d", "a", "t", "a", ":", " ">>

\* The JSON values the texts {1}, {2} and {3} stand for: two records the
\* stream loop dispatches on, and a record as the server writes it.
JsonValue(k) ==
  CASE k = "1" -> [type |-> "log", message |-> "m"]
    [] k = "2" -> [type |-> "complete", success |-> TRUE]
    [] k = "3" -> [eventType |-> "complete", success |-> TRUE]

JsonText(k) == <<"{", k, "}">>

\* The lines a response body is made of: records, the empty line that ends
\* a record, a line without the prefix, a line whose prefix lacks the
\* space, and a line whose JSON text is cut short.
LineTexts ==
  {DataPrefix \o JsonText(k) : k \in {"1", "2", "3"}}
    \cup {<<>>, <<":", "p">>, <<"d", "a", "t", "a", ":">> \o JsonText("1"),
          DataPrefix \o <<"{", "1">>}

\* What a body ends with after its last '\n'
TailTexts == {<<>>, DataPrefix \o JsonText("2")}

RECURSIVE BodiesOf(_)
BodiesOf(n) ==
  IF n = 0 THEN {<<>>}
  ELSE BodiesOf(n - 1) \cup
         {body \o line \o <<LF>> : body \in BodiesOf(n - 1), line \in LineTexts}

\* The response bodies the model follows.
Streams == {body \o tail : body \in BodiesOf(MaxLines), tail \in TailTexts}

\* text.split('\n'): the pieces of text between its line feeds, the last
\* one being what follows the last line feed.
RECURSIVE splitFrom(_, _, _)
splitFrom(text, i, piece) ==
  IF i > Len(text) THEN <<piece>>
  ELSE IF text[i] = LF THEN <<piece>> \o splitFrom(text, i + 1, <<>>)
  ELSE splitFrom(text, i + 1, Append(piece, text[i]))

split(text) == splitFrom(text, 1, <<>>)

\* line.startsWith(prefix)
startsWith(line, prefix) ==
  Len(line) >= Len(prefix) /\ SubSeq(line, 1, Len(prefix)) = prefix

\* JSON.parse(text): the value in a one-element sequence, or the empty
\* sequence when it throws.
JSONparse(text) ==
  IF Len(text) = 3 /\ text[1] = "{" /\ text[3] = "}" /\ text[2] \in {"1", "2", "3"}
    THEN <<JsonValue(text[2])>>
    ELSE <<>>

\* Lines 96-112 for one line of the buffer: a parse error is ignored.
DispatchText(c, line) ==
  IF startsWith(line, DataPrefix)
    THEN LET data == JSONparse(SubSeq(line, Len(DataPrefix) + 1, Len(line)))
         IN IF data = <<>> THEN c ELSE Dispatch(c, [prefix |-> "data: ", json |-> data[1]])
    ELSE c

\* for (const line of lines)
RECURSIVE DispatchLines(_, _, _)
DispatchLines(c, lines, i) ==
  IF i > Len(lines) THEN c ELSE DispatchLines(DispatchText(c, lines[i]), lines, i + 1)

\* Mutant of Consume: the text after the last line feed is dropped.
ConsumeDroppingRest(c, chunk) ==
  LET lines == split(c.buffer \o chunk)
  IN [DispatchLines(c, SubSeq(lines, 1, Len(lines) - 1), 1) EXCEPT !.buffer = <<>>]

\* Lines 91-113 for one chunk: buffer += decode(value); lines =
\* buffer.split('\n'); buffer = lines.pop() || ''; and the loop over lines.
Consume(c, chunk) ==
  LET lines == split(c.buffer \o chunk)
  IN [DispatchLines(c, SubSeq(lines, 1, Len(lines) - 1), 1)
        EXCEPT !.buffer = lines[Len(lines)]]

\* reader.read() resolves with a chunk: the transport cuts the body where
\* it likes.
ChunkRead(e) ==
  /\ client[e].pc = "reading"
  /\ \E n \in 1..(Len(client[e].stream) - client[e].offset) :
       LET chunk == SubSeq(client[e].stream, client[e].offset + 1, client[e].offset + n)
       IN client' = [client EXCEPT ![e] =
            [Consume(client[e], chunk) EXCEPT !.offset = @ + n, !.chunks = @ + 1]]
  /\ UNCHANGED <<exec, tokenStore, oauth2Client, providerLog, app, modal, auth>>

\* reader.read() resolves with done: break.
ChunkDone(e) ==
  /\ client[e].pc = "reading"
  /\ client[e].offset = Len(client[e].stream)
  /\ client' = [client EXCEPT ![e].pc = "returned"]
  /\ UNCHANGED <<exec, tokenStore, oauth2Client, providerLog, app, modal, auth>>

\* One executeAgentTask call reads one of the response bodies.
InitChunks ==
  /\ exec = [e \in Execs |-> IdleExec]
  /\ tokenStore = StoreOf({"p@example.com"})
  /\ oauth2Client = NoCredentials
  /\ providerLog = {}
  /\ \E body \in Streams :
       client = [e \in Execs |-> IF e = 1 THEN [IdleClient EXCEPT !.stream = body]
                                          ELSE IdleClient]
  /\ app = UnmountedApp
  /\ modal = ClosedModal
  /\ auth = IdleAuth

NextChunks == ChunkRead(1) \/ ChunkDone(1)

SpecChunks == InitChunks /\ [][NextChunks]_vars

\* One request to /agent/execute and the executeAgentTask call that made it.
NextStream ==
  \/ Step(1, {"finishing"}, {Scout}, Tasks) /\ UNCHANGED <<client, app, modal, auth>>
  \/ ClientRead(1)
  \/ ClientDone(1)
  \/ ClientCatch(1)

SpecStream == Init /\ [][NextStream]_vars

(***************************************************************************)
(* The App component (App.tsx): the events state and its localStorage item *)
(***************************************************************************)
\* Bound of the environment: the number of events one browser ever creates
\* (uuidv4 gives each an id of its own).
MaxCreated == 3

\* The hour of the day a selection starts at.
Hours == {9, 14}

\* A Date at hour h of the first day: its time value in milliseconds.
DateAt(h) == [time |-> h * 3600000]

\* Mutant of toISOString: the text without its milliseconds.
toISOStringSeconds(d) ==
  [day |-> d.time \div 86400000,
   hh |-> (d.time \div 3600000) % 24,
   mm |-> (d.time \div 60000) % 60,
   ss |-> (d.time \div 1000) % 60,
   sss |-> 0]

\* d.toISOString(): the fields of YYYY-MM-DDTHH:mm:ss.sssZ; the calendar date
\* is kept as the number of its day.
toISOString(d) ==
  [day |-> d.time \div 86400000,
   hh |-> (d.time \div 3600000) % 24,
   mm |-> (d.time \div 60000) % 60,
   ss |-> (d.time \div 1000) % 60,
   sss |-> d.time % 1000]

\* new Date(isoString): the time value the fields of the text denote
NewDate(str) ==
  [time |-> (((str.day * 24 + str.hh) * 60 + str.mm) * 60 + str.ss) * 1000 + str.sss]

\* JSON.stringify(events.map(e => ({...e, start: e.start.toISOString(),
\* end: e.end.toISOString()}))): the JSON text is modelled by the array it
\* denotes.
serializeEvents(events) ==
  [i \in 1..Len(events) |->
     [events[i] EXCEPT !.start = toISOString(@), !.end = toISOString(@)]]

\* JSON.parse(json).map(e => ({...e, start: new Date(e.start), end: new
\* Date(e.end)}))
deserializeEvents(json) ==
  [i \in 1..Len(json) |->
     [json[i] EXCEPT !.start = NewDate(@), !.end = NewDate(@)]]

\* useEffect(..., [events]): after a render in which events changed.
PersistEffect(a) ==
  IF Len(a.events) > 0
    THEN [a EXCEPT !.storage = <<serializeEvents(a.events)>>]
    ELSE a

uuidv4(a) == "uuid-" \o ToString(a.created + 1)

demoEvent(a) ==
  [id |-> uuidv4(a), title |-> "Morning Briefing", start |-> DateAt(9),
   end |-> DateAt(10), agentId |-> "agent-1", status |-> "COMPLETED",
   category |-> "communication",
   logs |-> <<[id |-> "1", message |-> "Connected to Gmail API", type |-> "info"],
              [id |-> "2", message |-> "Found 12 unread high-priority emails", type |-> "success"],
              [id |-> "3", message |-> "Drafted summaries for user review", type |-> "success"]>>]

\* const newEvent: CalendarEvent = {...} of handleMouseUp
newEvent(a, h) ==
  [id |-> uuidv4(a), title |-> "New Agent Task", start |-> DateAt(h),
   end |-> DateAt(h + 1), status |-> "SCHEDULED", category |-> "other",
   logs |-> <<>>]

\* The agents the app offers: the first two of MOCK_AGENTS, which App keeps
\* in its agents state and passes to the modal.
MOCK_AGENTS ==
  <<[id |-> "agent-1", name |-> "Executive Assistant", role |-> "Communication"],
    [id |-> "agent-2", name |-> "DevOps Bot", role |-> "Engineering"]>>

\* a.includes(x)
includes(a, x) == \E j \in 1..Len(a) : a[j] = x

\* The effect of EventModal that runs when the modal opens on an event:
\* setTitle(event.title), setSelectedAgentIds(event.agentId ? [event.agentId]
\* : []), setStatus(event.status), setLogs(event.logs).
Opened(md, event) ==
  [md EXCEPT !.isOpen = TRUE, !.event = <<event>>, !.title = event.title,
             !.selectedAgentIds = IF Has(event, "agentId") THEN <<event.agentId>> ELSE <<>>,
             !.status = event.status, !.logs = event.logs]

\* {...event, title, agentId: selectedAgentIds[0], status, logs, category}:
\* an undefined agentId is a property JSON.stringify drops and the modal
\* reads as absent.
SavedEvent(event, title, selectedAgentIds, status, logs) ==
  [f \in (DOMAIN event \ {"agentId"})
         \cup (IF selectedAgentIds = <<>> THEN {} ELSE {"agentId"}) |->
     CASE f = "agentId" -> selectedAgentIds[1]
       [] f = "title" -> title
       [] f = "status" -> status
       [] f = "logs" -> logs
       [] OTHER -> event[f]]

\* events.map(e => e.id === updated.id ? updated : e), over the events of
\* the render the handler was made in.
handleUpdateEvent(events, updated) ==
  [i \in 1..Len(events) |-> IF events[i].id = updated.id THEN updated ELSE events[i]]

\* The page is loaded or refreshed: useState([]), the load effect and the
\* persist effect of the render that follows it; no event is selected.
AppMount ==
  /\ app' = PersistEffect(
       IF app.storage # <<>>
         THEN [app EXCEPT !.pc = "mounted", !.events = deserializeEvents(app.storage[1])]
         ELSE [app EXCEPT !.pc = "mounted", !.events = <<demoEvent(app)>>,
                          !.created = @ + 1])
  /\ modal' = [ClosedModal EXCEPT !.requests = modal.requests]
  /\ UNCHANGED <<exec, tokenStore, oauth2Client, providerLog, client, auth>>

\* handleMouseUp with a selection: setEvents([...events, newEvent]),
\* setSelectedEvent(newEvent), setIsEventModalOpen(true).  The open modal
\* covers the calendar.
AppCreate ==
  /\ app.pc = "mounted"
  /\ ~modal.isOpen
  /\ app.created < MaxCreated
  /\ \E h \in Hours :
       /\ app' = PersistEffect([app EXCEPT !.events = Append(@, newEvent(app, h)),
                                           !.created = @ + 1])
       /\ modal' = Opened(modal, newEvent(app, h))
  /\ UNCHANGED <<exec, tokenStore, oauth2Client, providerLog, client, auth>>

\* onClick of an event of the calendar: setSelectedEvent(event),
\* setIsEventModalOpen(true).
AppOpen ==
  /\ app.pc = "mounted"
  /\ ~modal.isOpen
  /\ \E k \in 1..Len(app.events) : modal' = Opened(modal, app.events[k])
  /\ UNCHANGED <<exec, tokenStore, oauth2Client, providerLog, client, app, auth>>

\* onClose: setIsEventModalOpen(false)
ModalClose ==
  /\ modal.isOpen
  /\ modal' = [modal EXCEPT !.isOpen = FALSE]
  /\ UNCHANGED <<exec, tokenStore, oauth2Client, providerLog, client, app, auth>>

\* toggleAgentSelection(agentId)
toggleAgentSelection ==
  /\ modal.isOpen
  /\ \E k \in 1..Len(MOCK_AGENTS) :
       LET agentId == MOCK_AGENTS[k].id
       IN modal' = [modal EXCEPT !.selectedAgentIds =
            IF includes(@, agentId)
              THEN SelectSeq(@, LAMBDA id : id # agentId)
              ELSE Append(@, agentId)]
  /\ UNCHANGED <<exec, tokenStore, oauth2Client, providerLog, client, app, auth>>

\* handleSave: onSave({...}) is handleUpdateEvent of the current render,
\* then onClose().
handleSave ==
  /\ modal.isOpen
  /\ LET updated == SavedEvent(modal.event[1], modal.title, modal.selectedAgentIds,
                               modal.status, modal.logs)
     IN app' = PersistEffect([app EXCEPT !.events = handleUpdateEvent(app.events, updated)])
  /\ modal' = [modal EXCEPT !.isOpen = FALSE]
  /\ UNCHANGED <<exec, tokenStore, oauth2Client, providerLog, client, auth>>

\* The Delete button: onDelete(event.id) is handleDeleteEvent(id):
\* setEvents(events.filter(e => e.id !== id)), setIsEventModalOpen(false).
AppDelete ==
  /\ modal.isOpen
  /\ app' = PersistEffect([app EXCEPT !.events =
              SelectSeq(app.events, LAMBDA ev : ev.id # modal.event[1].id)])
  /\ modal' = [modal EXCEPT !.isOpen = FALSE]
  /\ UNCHANGED <<exec, tokenStore, oauth2Client, providerLog, client, auth>>

NextApp ==
  \/ AppMount
  \/ AppCreate
  \/ AppOpen
  \/ ModalClose
  \/ toggleAgentSelection
  \/ handleSave
  \/ AppDelete

SpecApp == Init /\ [][NextApp]_vars

(***************************************************************************)
(* serializeEvents and deserializeEvents over lists of events              *)
(***************************************************************************)
\* Bound of the environment: the number of events of a list.
MaxEvents == 2

\* Time values: midnight, 09:00, 14:30:15.250 and 23:59:59.999 of the first
\* day, and 00:00:00.001 of the second.
Times == {0, 32400000, 52215250, 86399999, 86400001}

\* The events of a calendar, with and without an agent and logs.
EventsWith(id) ==
  LET plain == {[id |-> id, title |-> "Inbox triage", start |-> [time |-> t1],
                 end |-> [time |-> t2], status |-> st, category |-> "other", logs |-> l] :
                  t1 \in Times, t2 \in {86399999, 86400001}, st \in {"SCHEDULED", "FAILED"},
                  l \in {<<>>, <<[id |-> "agent-1-error", message |-> "Execution failed",
                                   type |-> "error", agentName |-> "Executive Assistant"]>>}}
  IN plain \cup {SavedEvent(ev, ev.title, <<"agent-2">>, ev.status, ev.logs) : ev \in plain}

RECURSIVE EventLists(_)
EventLists(n) ==
  IF n = 0 THEN {<<>>}
  ELSE EventLists(n - 1) \cup
         {Append(events, ev) : events \in {l \in EventLists(n - 1) : Len(l) = n - 1},
                                ev \in EventsWith("uuid-" \o ToString(n))}

\* The page that showed a list of events has stored it and was closed; events
\* is the list it showed.
InitRoundTrip ==
  /\ exec = [e \in Execs |-> IdleExec]
  /\ tokenStore = StoreOf({"p@example.com"})
  /\ oauth2Client = NoCredentials
  /\ providerLog = {}
  /\ client = [e \in Execs |-> IdleClient]
  /\ \E events \in EventLists(MaxEvents) :
       app = PersistEffect([UnmountedApp EXCEPT !.events = events, !.created = Len(events)])
  /\ modal = ClosedModal
  /\ auth = IdleAuth

\* The page is opened again: the events are read back from the stored text.
NextRoundTrip == AppMount

SpecRoundTrip == InitRoundTrip /\ [][NextRoundTrip]_vars

(***************************************************************************)
(* An agent run of the event modal: handleRunAgents of EventModal.tsx      *)
(***************************************************************************)
\* Mutant of selectedAgentsOf: the agents in the order their ids were picked.
selectedAgentsAsPicked(agents, selectedAgentIds) ==
  [j \in 1..Len(selectedAgentIds) |->
     agents[CHOOSE k \in 1..Len(agents) : agents[k].id = selectedAgentIds[j]]]

\* agents.filter(a => selectedAgentIds.includes(a.id))
selectedAgentsOf(agents, selectedAgentIds) ==
  SelectSeq(agents, LAMBDA a : includes(selectedAgentIds, a.id))

\* The Run button, lines 103-112 up to the await of checkServerHealth().  The
\* button is disabled while isProcessing; the function keeps the props and
\* state of the render it was made in.  A run starts only while the
\* executions it needs are left.
handleRunAgents ==
  /\ modal.isOpen
  /\ ~modal.isProcessing
  /\ modal.selectedAgentIds # <<>>
  /\ LET selectedAgents == selectedAgentsOf(MOCK_AGENTS, modal.selectedAgentIds)
     IN /\ selectedAgents # <<>>
        /\ Len(modal.requests) + Len(selectedAgents) <= Cardinality(Execs)
        /\ modal' = [modal EXCEPT
              !.isProcessing = TRUE, !.status = "IN_PROGRESS", !.logs = <<>>,
              !.run = [NoRun EXCEPT !.pc = "awaitHealth",
                                    !.selectedAgents = selectedAgents,
                                    !.event = modal.event, !.title = modal.title,
                                    !.selectedAgentIds = modal.selectedAgentIds,
                                    !.events = app.events]]
  /\ UNCHANGED <<exec, tokenStore, oauth2Client, providerLog, client, app, auth>>

\* Lines 130-167 for agent i: the header log, and the call of
\* executeAgentTask whose completion the function awaits.
CallAgent(md, i) ==
  LET agent == md.run.selectedAgents[i]
      headerLog == [id |-> "header-" \o agent.id,
                    message |-> agent.name \o " starting task...",
                    type |-> "info", agentName |-> agent.name]
      allLogs == Append(md.run.allLogs, headerLog)
  IN [md EXCEPT !.run.pc = "awaitAgent", !.run.i = i, !.run.e = Len(md.requests) + 1,
                !.run.allLogs = allLogs, !.logs = allLogs,
                !.requests = Append(@, [task |-> md.run.title, agentId |-> agent.id,
                                        agentName |-> agent.name,
                                        agentRole |-> agent.role])]

\* What checkServerHealth() resolves with: null, or the body of /health.
HealthAnswers ==
  {NoAnswer} \cup {[answered |-> TRUE, anthropicConfigured |-> c] : c \in BOOLEAN}

UnavailableOnlyIfDown(health) == ~health.answered

\* !health || !health.anthropicConfigured
Unavailable(health) == ~health.answered \/ ~health.anthropicConfigured

\* checkServerHealth() resolves: lines 114-127 and the first pass of the loop.
RunHealth ==
  /\ modal.run.pc = "awaitHealth"
  /\ \E health \in HealthAnswers :
       LET md == [modal EXCEPT !.run.health = health]
       IN modal' = IF Unavailable(health)
            THEN [md EXCEPT
                    !.logs = <<[id |-> "1",
                                message |-> "Backend server not available. Please start the server with: cd server && npm install && npm run dev",
                                type |-> "error"]>>,
                    !.status = "FAILED", !.isProcessing = FALSE, !.run.pc = "unavailable"]
            ELSE CallAgent(md, 1)
  /\ UNCHANGED <<exec, tokenStore, oauth2Client, providerLog, client, app, auth>>

\* The logs the onLog callback of agent has pushed: {...log, id:
\* `${agent.id}-${log.id}`, agentName: agent.name}
ExtendedLogs(agent, logs) ==
  [j \in 1..Len(logs) |->
     [id |-> agent.id \o "-" \o logs[j].id, message |-> logs[j].message,
      type |-> logs[j].type, agentName |-> agent.name]]

\* onComplete has been called and has resolved the awaited promise: the
\* function resumes with what the callbacks did to allLogs and allSuccess,
\* and either starts the next agent or runs lines 170-181, where onSave is
\* the handleUpdateEvent of the render the function was made in.
RunResume ==
  /\ modal.run.pc = "awaitAgent"
  /\ client[modal.run.e].completes # <<>>
  /\ LET run == modal.run
         c == client[run.e]
         allSuccess == run.allSuccess /\ \A j \in 1..Len(c.completes) : c.completes[j]
         allLogs == run.allLogs \o ExtendedLogs(run.selectedAgents[run.i], c.logs)
         md == [modal EXCEPT !.run.allSuccess = allSuccess, !.run.allLogs = allLogs,
                             !.logs = allLogs]
         finalStatus == IF allSuccess THEN "COMPLETED" ELSE "FAILED"
         updated == SavedEvent(run.event[1], run.title, run.selectedAgentIds,
                               finalStatus, allLogs)
     IN IF run.i < Len(run.selectedAgents)
          THEN /\ modal' = CallAgent(md, run.i + 1)
               /\ UNCHANGED app
          ELSE /\ modal' = [md EXCEPT !.status = finalStatus, !.isProcessing = FALSE,
                                      !.run.pc = "done", !.run.finalStatus = finalStatus]
               /\ app' = PersistEffect([app EXCEPT !.events =
                            handleUpdateEvent(run.events, updated)])
  /\ UNCHANGED <<exec, tokenStore, oauth2Client, providerLog, client, auth>>

\* The modal has called executeAgentTask for execution e.
Requested(e) == e <= Len(modal.requests)

\* The request body of the call behind execution e.
BodyOf(e) == [agentName |-> modal.requests[e].agentName, agentRole |-> modal.requests[e].agentRole]

\* googleUser?.email, the prop the modal sends as userEmail: the user has
\* connected this Google account.
googleUserEmail == "p@example.com"

\* The server's side of the executions the modal has asked for: each
\* request carries the body its executeAgentTask call sent.
ServerStep ==
  \E e \in Execs :
    /\ Requested(e)
    /\ Step(e, {"finishing"}, {BodyOf(e)}, {modal.requests[e].task})
    /\ exec'[e].userEmail = googleUserEmail
    /\ UNCHANGED <<client, app, modal, auth>>

\* executeAgentTask reads the stream of its execution.
ClientStep == \E e \in Execs : Requested(e) /\ (ClientRead(e) \/ ClientDone(e))

\* The connection of an executeAgentTask call is lost.
ClientLoss == \E e \in Execs : Requested(e) /\ ClientCatch(e)

\* The model provider of the modal's executions answers every request with
\* its default completion.
InitModal ==
  /\ exec = [e \in Execs |-> [IdleExec EXCEPT !.varied = MaxVaried]]
  /\ tokenStore = StoreOf({googleUserEmail})
  /\ oauth2Client = NoCredentials
  /\ providerLog = {}
  /\ client = [e \in Execs |-> IdleClient]
  /\ app = UnmountedApp
  /\ modal = ClosedModal
  /\ auth = IdleAuth

\* The runs of the modal of one event, with the server executions and the
\* stream readers behind them.
NextRun ==
  \/ app.pc = "unmounted" /\ AppMount
  \/ AppOpen
  \/ toggleAgentSelection
  \/ handleRunAgents
  \/ RunHealth
  \/ RunResume
  \/ ServerStep
  \/ ClientStep
  \/ ClientLoss

SpecRun == InitModal /\ [][NextRun]_vars

\* The server, the stream readers and the resumption of the run are not
\* held up forever; a lost connection is never forced.
FairRun ==
  SpecRun /\ WF_vars(ServerStep) /\ WF_vars(ClientStep) /\ WF_vars(RunHealth \/ RunResume)

\* The app in one page load: its events, its modal and the runs the modal
\* starts.  Reading a stream calls neither callback, so a run resumes only
\* after the connection of its call is lost, and the streams are left out.
NextModal ==
  \/ app.pc = "unmounted" /\ AppMount
  \/ AppCreate
  \/ AppOpen
  \/ ModalClose
  \/ handleSave
  \/ AppDelete
  \/ handleRunAgents
  \/ RunHealth
  \/ RunResume
  \/ ClientLoss

SpecModal == InitModal /\ [][NextModal]_vars

(***************************************************************************)
(* Vocabulary of the properties                                            *)
(***************************************************************************)
Done(e) == exec[e].pc = "done"

Events(e) == exec[e].events

LastEvent(e) == Events(e)[Len(Events(e))]

CompleteIdx(e) == {i \in 1..Len(Events(e)) : Events(e)[i].eventType = "complete"}

\* Every model request made so far has been answered with a completion.
AllAnswered(e) == Len(exec[e].rounds) = exec[e].requests

\* Round r of execution e is over.
RoundOver(e, r) == exec[e].requests > r \/ Done(e)

RECURSIVE ResultsFrom(_, _)
ResultsFrom(m, i) ==
  IF i > Len(m) THEN <<>>
  ELSE (IF m[i].role = "user" THEN m[i].content ELSE <<>>) \o ResultsFrom(m, i + 1)

\* The tool results in the history: the content of the user turns after the
\* seed turn.
HistoryResults(e) == ResultsFrom(exec[e].messages, 2)

\* The tool results recorded so far, in the history or in the toolResults of
\* the round in progress.
AllResults(e) ==
  HistoryResults(e) \o
    (IF exec[e].pc \in {"blocks", "awaitTool", "awaitList", "awaitGets"}
       THEN exec[e].toolResults ELSE <<>>)

EntriesFor(e, id) ==
  LET results == AllResults(e)
  IN {i \in 1..Len(results) : results[i].tool_use_id = id}

IsError(entry) == Has(entry, "is_error") /\ entry.is_error

\* After round r the loop goes on to another model request; at the
\* iteration cap it ends with the normal completion instead.
GoesOn(e, r) ==
  RoundOver(e, r) =>
    /\ r < maxIterations => exec[e].requests > r
    /\ r = maxIterations => Done(e) /\ LastEvent(e) = CompleteOk

\* The execution has not failed, or has failed with an error of the model
\* provider.
NoToolFailure(e) ==
  \A i \in CompleteIdx(e) :
    ~Events(e)[i].success => Events(e)[i].error \in ModelErrors

(***************************************************************************)
(* C1..C10                                                                 *)
(***************************************************************************)
\* C1: the events of an execution hold no 'complete' event while it runs and,
\* once it is over, exactly one, which is the last event.
C1_OneCompleteLast ==
  \A e \in Execs :
    /\ Done(e) => CompleteIdx(e) = {Len(Events(e))} /\ Len(Events(e)) > 0
    /\ ~Done(e) => CompleteIdx(e) = {}

\* An execution that failed at a model request after it had called tools.
C1_Witness ==
  /\ Done(1)
  /\ exec[1].failure # <<>>
  /\ exec[1].calls # <<>>
  /\ CompleteIdx(1) = {Len(Events(1))}

\* C2: never more than 10 model requests; when every request is answered by
\* a completion with at least one tool call, the execution ends after exactly
\* 10 requests with complete{success: true}.
C2_IterationCap ==
  \A e \in Execs :
    /\ exec[e].requests <= 10
    /\ (/\ Done(e)
        /\ AllAnswered(e)
        /\ \A i \in 1..Len(exec[e].rounds) : exec[e].rounds[i].tools >= 1)
       => exec[e].requests = 10 /\ LastEvent(e) = CompleteOk

C2_Witness ==
  /\ Done(1)
  /\ exec[1].requests = 10
  /\ Len(exec[1].rounds) = 10
  /\ \A i \in 1..10 : exec[1].rounds[i].tools >= 1
  /\ LastEvent(1) = CompleteOk

\* C3: the i-th completion holding no tool call is the last one requested,
\* whatever its stop_reason.
C3_ZeroToolRoundEnds ==
  \A e \in Execs :
    \A i \in 1..Len(exec[e].rounds) :
      exec[e].rounds[i].tools = 0 => exec[e].requests = i

C3_Witness ==
  /\ Done(1)
  /\ \E i \in 1..Len(exec[1].rounds) :
       /\ exec[1].rounds[i].tools = 0
       /\ exec[1].rounds[i].stop_reason # "end_turn"
       /\ exec[1].requests = i

\* C4 as stated: after every round in which a tool call raised, another
\* model request is made.
C4_Original ==
  \A e \in Execs :
    \A id \in exec[e].raised :
      RoundOver(e, id[1]) => exec[e].requests > id[1]

\* C4 amended: a tool call that raised has exactly one result, flagged
\* is_error; after its round the loop makes another model request unless the
\* round was the 10th, and then the execution ends with complete{success:
\* true}; the execution never fails with the tool's error.
C4_RaisedToolIsData ==
  \A e \in Execs :
    \A id \in exec[e].raised :
      /\ Cardinality(EntriesFor(e, id)) = 1
      /\ \A i \in EntriesFor(e, id) : IsError(AllResults(e)[i])
      /\ GoesOn(e, id[1])
      /\ NoToolFailure(e)

C4_Witness ==
  \E id \in exec[1].raised :
    /\ id[1] < 10
    /\ exec[1].requests > id[1]
    /\ \E i \in EntriesFor(1, id) : IsError(AllResults(1)[i])

\* C5: when a model request is outstanding, the history holds for the tool
\* calls made so far exactly one result each, in the order of the calls.
C5_ResultsBeforeRequest ==
  \A e \in Execs :
    exec[e].pc = "awaitModel" =>
      LET R == HistoryResults(e)
          K == exec[e].calls
      IN /\ Len(R) = Len(K)
         /\ \A i \in 1..Len(R) : R[i].tool_use_id = K[i].id
         /\ \A i, j \in 1..Len(R) : R[i].tool_use_id = R[j].tool_use_id => i = j

\* Two tool calls of one round, the first of which raised.
C5_Witness ==
  /\ exec[1].pc = "awaitModel"
  /\ \E i \in 1..Len(exec[1].calls) :
       /\ i + 1 <= Len(exec[1].calls)
       /\ exec[1].calls[i].id \in exec[1].raised
       /\ exec[1].calls[i + 1].id[1] = exec[1].calls[i].id[1]
       /\ HistoryResults(1)[i + 1].tool_use_id = exec[1].calls[i + 1].id

\* The wording '<Integration> not connected. Please connect your ... account
\* first.'
NotConnectedWording ==
  {i \o " not connected. Please connect your " \o a \o " account first." :
     i \in {"Gmail", "Google Calendar"}, a \in {"Google"}}

\* The calls of Gmail and Calendar tools made for a principal that is null
\* or has no entry in tokenStore.
UnconnectedCalls(e) ==
  {i \in 1..Len(exec[e].calls) :
     NeedsGoogle(exec[e].calls[i].name) /\ ~exec[e].calls[i].connected}

C6_DomainError(e) ==
  \A k \in UnconnectedCalls(e) :
    LET id == exec[e].calls[k].id
    IN /\ \A r \in providerLog : ~(r.exec = e /\ r.call = id)
       /\ Cardinality(EntriesFor(e, id)) = 1
       /\ \A i \in EntriesFor(e, id) :
            /\ DOMAIN AllResults(e)[i].content = {"error"}
            /\ AllResults(e)[i].content.error \in NotConnectedWording
            /\ ~IsError(AllResults(e)[i])

\* C6: a Gmail or Calendar tool called for a principal that is null or not in
\* tokenStore sends no request to the provider and returns the domain error
\* with the required wording, and the execution goes on to its 'complete'
\* event.
C6_NotConnected ==
  /\ [](\A e \in Execs : C6_DomainError(e))
  /\ \A e \in Execs :
       (UnconnectedCalls(e) # {}) ~> (Done(e) /\ CompleteIdx(e) = {Len(Events(e))})

\* An execution for a principal without an entry in tokenStore that called a
\* Calendar tool and is over.
C6_Witness ==
  /\ Done(1)
  /\ exec[1].userEmail \in Principals
  /\ exec[1].userEmail \notin DOMAIN tokenStore
  /\ \E k \in UnconnectedCalls(1) : exec[1].calls[k].name = "create_calendar_event"
  /\ LastEvent(1).eventType = "complete"

\* C7: an execution that ends without a failed model request ends with the
\* log 'Task execution completed' (success) followed by complete{success:
\* true}.
C7_NormalExit ==
  \A e \in Execs :
    Done(e) /\ AllAnswered(e) =>
      /\ Len(Events(e)) >= 2
      /\ Events(e)[Len(Events(e)) - 1] = LogEvent("Task execution completed", "success")
      /\ LastEvent(e) = CompleteOk

\* The loop left at the iteration cap.
C7_Witness ==
  /\ Done(1)
  /\ AllAnswered(1)
  /\ exec[1].iterations = 10
  /\ exec[1].continueLoop
  /\ LastEvent(1) = CompleteOk

NoCompletedLog(e) ==
  \A i \in 1..Len(Events(e)) :
    Events(e)[i].eventType = "log" => Events(e)[i].message # "Task execution completed"

\* C8 as stated: after a failed model request the last two events are an
\* error log whose message is the failure message and complete{success:
\* false} with that message.
C8_Original ==
  \A e \in Execs :
    Done(e) /\ exec[e].failure # <<>> =>
      /\ Len(Events(e)) >= 2
      /\ Events(e)[Len(Events(e)) - 1] = LogEvent(exec[e].failure[1], "error")
      /\ LastEvent(e) = CompleteFailed(exec[e].failure[1])
      /\ NoCompletedLog(e)

\* C8 amended: the error log's message is 'Execution failed: ' followed by
\* the failure message; the complete event carries the failure message
\* itself.
C8_FailureExit ==
  \A e \in Execs :
    Done(e) /\ exec[e].failure # <<>> =>
      /\ Len(Events(e)) >= 2
      /\ Events(e)[Len(Events(e)) - 1] =
           LogEvent("Execution failed: " \o exec[e].failure[1], "error")
      /\ LastEvent(e) = CompleteFailed(exec[e].failure[1])
      /\ NoCompletedLog(e)

\* A model request that failed after a round with tool calls.
C8_Witness ==
  /\ Done(1)
  /\ exec[1].failure # <<>>
  /\ exec[1].requests >= 2
  /\ ~LastEvent(1).success

\* C9: every request to a Google API made by a tool call of an execution
\* carries the credentials of that execution's principal.
C9_OwnCredentials ==
  \A r \in providerLog :
    /\ exec[r.exec].userEmail \in DOMAIN tokenStore
    /\ r.auth = tokenStore[exec[r.exec].userEmail].tokens

UnknownCalls(e) ==
  {i \in 1..Len(exec[e].calls) : exec[e].calls[i].name \notin ToolNames}

\* C10 as stated: after every round that called an unknown tool the loop
\* continues to the next round.
C10_Original ==
  \A e \in Execs :
    \A k \in UnknownCalls(e) :
      RoundOver(e, exec[e].calls[k].id[1]) => exec[e].requests > exec[e].calls[k].id[1]

\* C10 amended: a call of an unknown tool has exactly one result, {error:
\* 'Unknown tool: <name>'}, not flagged is_error; the execution does not fail
\* because of it, and after its round the loop makes another model request
\* unless the round was the 10th, and then the execution ends with
\* complete{success: true}.
C10_UnknownTool ==
  \A e \in Execs :
    \A k \in UnknownCalls(e) :
      LET id == exec[e].calls[k].id
      IN /\ Cardinality(EntriesFor(e, id)) = 1
         /\ \A i \in EntriesFor(e, id) :
              /\ AllResults(e)[i].content = [error |-> "Unknown tool: " \o exec[e].calls[k].name]
              /\ ~IsError(AllResults(e)[i])
         /\ GoesOn(e, id[1])
         /\ NoToolFailure(e)

C10_Witness ==
  \E k \in UnknownCalls(1) :
    /\ exec[1].calls[k].id[1] < 10
    /\ exec[1].requests > exec[1].calls[k].id[1]
    /\ \E i \in EntriesFor(1, exec[1].calls[k].id) :
         AllResults(1)[i].content = [error |-> "Unknown tool: web_search"]

(***************************************************************************)
(* C11..C20                                                                *)
(***************************************************************************)
\* C11: a recorded tool result is flagged is_error exactly when its tool call
\* raised; a result whose payload has an error field but whose call returned
\* is unflagged.
C11_FlagIffRaised ==
  \A e \in Execs :
    LET results == AllResults(e)
    IN \A i \in 1..Len(results) :
         IsError(results[i]) <=> results[i].tool_use_id \in exec[e].raised

\* The history fed to the next model request holds a flagged result of a call
\* that raised and an unflagged domain error.
C11_Witness ==
  /\ exec[1].pc = "awaitModel"
  /\ \E i, j \in 1..Len(HistoryResults(1)) :
       /\ IsError(HistoryResults(1)[i])
       /\ HistoryResults(1)[i].tool_use_id \in exec[1].raised
       /\ ~IsError(HistoryResults(1)[j])
       /\ Has(HistoryResults(1)[j].content, "error")
       /\ HistoryResults(1)[j].tool_use_id \notin exec[1].raised

\* C12: an execution that has started eventually is over with its 'complete'
\* event sent, when every request it awaits is eventually answered or fails.
C12_Terminates ==
  \A e \in Execs :
    (exec[e].pc # "idle") ~>
      (Done(e) /\ exec[e].ended /\ CompleteIdx(e) = {Len(Events(e))})

\* The execution is over after the loop ran to the iteration cap.
C12_Witness ==
  /\ Done(1)
  /\ exec[1].ended
  /\ exec[1].requests = 10
  /\ LastEvent(1).eventType = "complete"

\* The (message, severity) pairs of the log events execution e has written.
ServerLogs(e) ==
  LET logs == SelectSeq(Events(e), LAMBDA ev : ev.eventType = "log")
  IN [i \in 1..Len(logs) |-> [message |-> logs[i].message, type |-> logs[i].type]]

\* The (message, severity) pairs onLog has been called with.
ClientLogs(e) ==
  [i \in 1..Len(client[e].logs) |->
     [message |-> client[e].logs[i].message, type |-> client[e].logs[i].type]]

\* C13: once executeAgentTask has read the whole stream of an execution,
\* onLog has been called exactly once for every log event the server wrote,
\* with that event's message and severity, in the order of emission.
C13_LogsStreamed ==
  \A e \in Execs : client[e].pc = "returned" => ClientLogs(e) = ServerLogs(e)

\* getItem('agenttime_events') read as the load effect reads it
StoredEvents == IF app.storage = <<>> THEN <<>> ELSE deserializeEvents(app.storage[1])

\* C14: once the app has mounted, the event list stored in localStorage equals
\* the event list in memory after every create, update and delete, the
\* deletion of the last remaining event included.
C14_StorageEqualsMemory == app.pc = "mounted" => StoredEvents = app.events

\* C15: when the listing of a get_emails call returned N message ids and
\* the call returned, its result holds min(N, 5) hydrated messages, every
\* body has at most 500 characters, and count is N.
C15_MailRead ==
  \A e \in Execs :
    \A k \in 1..Len(exec[e].listings) :
      LET l == exec[e].listings[k]
      IN \A i \in EntriesFor(e, l.id) :
           l.id \notin exec[e].raised =>
             LET result == AllResults(e)[i].content
             IN /\ Len(result.emails) = Min(l.n, 5)
                /\ \A j \in 1..Len(result.emails) : result.emails[j].body <= 500
                /\ result.count = l.n

\* A listing of 6 ids was answered with 5 messages, one of them truncated
\* to 500 characters, and count 6.
C15_Witness ==
  \E k \in 1..Len(exec[1].listings) :
    LET l == exec[1].listings[k]
    IN /\ l.n > 5
       /\ l.id \notin exec[1].raised
       /\ \E i \in EntriesFor(1, l.id) :
            /\ AllResults(1)[i].content.count = 6
            /\ Len(AllResults(1)[i].content.emails) = 5
            /\ AllResults(1)[i].content.emails[1].body = 500

\* The attendees the awaited create_calendar_event call names: <<>> when its
\* attendees argument is missing or the empty list.
AttendeesNamed(e) ==
  IF Has(AwaitedBlock(e).input, "attendees") THEN AwaitedBlock(e).input.attendees ELSE <<>>

\* The call of calendar.events.insert that execution e awaits
AwaitedInsert(e) == exec[e].inserts[Len(exec[e].inserts)]

\* C16: calendar.events.insert is called with sendUpdates 'all' when the
\* attendees argument is a non-empty list and with 'none' when it is missing
\* or empty, and the event carries attendees only for a non-empty list.
C16_Notifications ==
  \A e \in Execs :
    (exec[e].pc = "awaitTool" /\ AwaitedBlock(e).name = "create_calendar_event") =>
      /\ AwaitedInsert(e).call = AwaitedBlock(e).id
      /\ AwaitedInsert(e).sendUpdates =
           IF Len(AttendeesNamed(e)) > 0 THEN "all" ELSE "none"
      /\ Has(AwaitedInsert(e).requestBody, "attendees") <=> Len(AttendeesNamed(e)) > 0

\* Every segment of the completion of execution e has been processed.
RoundEnding(e) ==
  /\ exec[e].pc = "blocks"
  /\ exec[e].blockIdx > Len(exec[e].response.content)

\* The number of tool calls in the completion execution e holds.
ToolCalls(e) ==
  Cardinality({i \in 1..Len(exec[e].response.content) :
                 exec[e].response.content[i].type = "tool_use"})

\* C17: the history is append-only. The end of a round with at least one
\* tool call appends one assistant turn holding the completion's content and
\* one user turn holding the round's tool results; the end of a round
\* without a tool call appends nothing; no other step of a running execution
\* changes the history, and no step removes or rewrites a turn.
C17_AppendOnly ==
  [][\A e \in Execs :
       LET old == exec[e].messages
           new == exec'[e].messages
       IN /\ Len(new) >= Len(old)
          /\ \A i \in 1..Len(old) : new[i] = old[i]
          /\ (RoundEnding(e) /\ ToolCalls(e) > 0) =>
               /\ Len(new) = Len(old) + 2
               /\ new[Len(old) + 1] = [role |-> "assistant", content |-> exec[e].response.content]
               /\ new[Len(old) + 2] = [role |-> "user", content |-> exec[e].toolResults]
               /\ Len(exec[e].toolResults) = ToolCalls(e)
          /\ (RoundEnding(e) /\ ToolCalls(e) = 0) => Len(new) = Len(old)
          /\ (exec[e].pc # "idle" /\ ~RoundEnding(e)) => Len(new) = Len(old)]_vars

\* Two rounds with tool calls and then a round without one have ended: the
\* history holds the seed turn and two pairs of turns.
C17_Witness ==
  /\ Done(1)
  /\ Len(exec[1].rounds) = 3
  /\ exec[1].rounds[3].tools = 0
  /\ Len(exec[1].messages) = 5
  /\ exec[1].messages[4].role = "assistant"
  /\ exec[1].messages[5].role = "user"
  /\ Len(exec[1].messages[5].content) > 0

\* Execution e awaits its first model request.
FirstRequest(e) ==
  /\ exec[e].pc = "awaitModel"
  /\ exec[e].requests = 1

\* C18 as stated: at the first model request the history is a single user
\* turn whose content is the task text.
C18_Original ==
  \A e \in Execs :
    FirstRequest(e) => exec[e].messages = <<[role |-> "user", content |-> exec[e].task]>>

\* C18: at the first model request the history is a single user turn whose
\* content is 'Execute this task: ' followed by the task text.
C18_SeedTurn ==
  \A e \in Execs :
    FirstRequest(e) =>
      /\ Len(exec[e].messages) = 1
      /\ exec[e].messages[1].role = "user"
      /\ exec[e].messages[1].content = "Execute this task: " \o exec[e].task

C18_Witness ==
  /\ FirstRequest(1)
  /\ exec[1].task \in Tasks
  /\ exec[1].messages[1].content = "Execute this task: Summarise my unread mail"

\* The number of events the segments 1..i-1 of a completion account for: one
\* for a text segment, two for a tool call.
RECURSIVE EventsBefore(_, _)
EventsBefore(content, i) ==
  IF i <= 1 THEN 0
  ELSE EventsBefore(content, i - 1) + (IF content[i - 1].type = "text" THEN 1 ELSE 2)

\* The number of tool calls among the segments 1..i of a completion.
ToolsUpTo(content, i) ==
  Cardinality({j \in 1..i : content[j].type = "tool_use"})

\* The events written since the completion of the current round arrived.
RoundEvents(e) == SubSeq(Events(e), exec[e].mark + 1, Len(Events(e)))

\* ev is the log that reports the outcome entry of tool call block: the log
\* of an exception, the call's own message for log_progress, the log of an
\* error payload, or the summary of the tool.
IsResultLog(e, ev, block, entry) ==
  /\ ev.eventType = "log"
  /\ IF block.id \in exec[e].raised
       THEN /\ ev.type = "error"
            /\ \E msg \in ProviderErrors : ev.message = "Tool execution failed: " \o msg
     ELSE IF block.name = "log_progress"
       THEN ev.message = block.input.message
     ELSE IF Has(entry.content, "error")
       THEN ev.type = "error" /\ ev.message = "Tool error: " \o entry.content.error
     ELSE /\ ev.type = "success"
          /\ \/ block.name = "send_email" /\ ev.message = "Email sent successfully"
             \/ block.name = "create_calendar_event"
                  /\ ev.message = "Calendar event created: \"" \o block.input.summary \o "\""
             \/ block.name = "get_calendar_events"
                  /\ \E n \in CalendarSizes :
                       ev.message = "Retrieved " \o ToString(n) \o " calendar events"
             \/ block.name = "get_emails"
                  /\ \E n \in ListSizes :
                       ev.message = "Retrieved " \o ToString(Min(n, 5)) \o " emails ("
                                      \o ToString(n) \o " total matching)"

\* The segments 1..blockIdx-1 have been processed; a tool call that is
\* awaited has been announced but has not returned.
Awaiting(e) == exec[e].pc \in {"awaitTool", "awaitList", "awaitGets"}

\* C19: within a round the events follow the completion's segments in
\* order: a text segment yields one info log with its text, a tool call one
\* 'Using tool: <name>' log, written before the tool is invoked, and one
\* result log, written when it has returned and before the next segment is
\* processed; nothing else is written during the round.
C19_EventsFollowSegments ==
  \A e \in Execs :
    (exec[e].pc = "blocks" \/ Awaiting(e)) =>
      LET content == exec[e].response.content
          done == exec[e].blockIdx - 1
          ev == RoundEvents(e)
      IN /\ Len(ev) = EventsBefore(content, done + 1) + (IF Awaiting(e) THEN 1 ELSE 0)
         /\ Awaiting(e) =>
              ev[Len(ev)] = LogEvent("Using tool: " \o content[done + 1].name, "info")
         /\ \A i \in 1..done :
              LET at == EventsBefore(content, i)
              IN IF content[i].type = "text"
                   THEN ev[at + 1] = LogEvent(content[i].text, "info")
                   ELSE /\ ev[at + 1] = LogEvent("Using tool: " \o content[i].name, "info")
                        /\ IsResultLog(e, ev[at + 2], content[i],
                                       exec[e].toolResults[ToolsUpTo(content, i)])

\* The round of get_emails, text, web_search has been processed: its events
\* are a 'Using tool' log, a summary, the text, a 'Using tool' log and a
\* 'Tool error' log.
C19_Witness ==
  /\ RoundEnding(1)
  /\ Len(exec[1].response.content) = 3
  /\ Len(RoundEvents(1)) = 5
  /\ RoundEvents(1)[2] = LogEvent("Retrieved 5 emails (6 total matching)", "success")
  /\ RoundEvents(1)[3] = LogEvent("Let me look at that.", "info")
  /\ RoundEvents(1)[5] = LogEvent("Tool error: Unknown tool: web_search", "error")

\* The segment execution e processes next is a log_progress call.
AtProgressCall(e) ==
  /\ InRound(e)
  /\ CurrentBlock(e).type = "tool_use"
  /\ CurrentBlock(e).name = "log_progress"

Sent(e) == exec[e].sent

\* C21: every model request of an execution carries the system directive
\* of the first one, every tool of the registry whatever the agent, and the
\* whole history as it is when the request is issued: the seed turn and the
\* two turns of each earlier round.
C21_RequestCarriesAll ==
  \A e \in Execs :
    /\ Len(Sent(e)) = exec[e].requests
    /\ \A k \in 1..Len(Sent(e)) :
         /\ Sent(e)[k].system = Sent(e)[1].system
         /\ Sent(e)[k].system.agentName = exec[e].agentName
         /\ Sent(e)[k].system.agentRole = exec[e].agentRole
         /\ Len(Sent(e)[k].tools) = Cardinality(ToolNames)
         /\ {Sent(e)[k].tools[i] : i \in 1..Len(Sent(e)[k].tools)} = ToolNames
         /\ Len(Sent(e)[k].messages) = 2 * k - 1
         /\ Len(exec[e].messages) >= 2 * k - 1
         /\ \A i \in 1..(2 * k - 1) : Sent(e)[k].messages[i] = exec[e].messages[i]
    /\ exec[e].pc = "awaitModel" => Sent(e)[Len(Sent(e))].messages = exec[e].messages

\* The Writer agent has issued a third request, with the five turns of the
\* history.
C21_Witness ==
  /\ exec[1].agentRole = "Writer"
  /\ exec[1].pc = "awaitModel"
  /\ Len(Sent(1)) = 3
  /\ Len(Sent(1)[3].messages) = 5
  /\ Sent(1)[3].tools = tools

\* The ids of the tool calls of execution e that have returned or raised:
\* those with a tool result.
AnsweredIds(e) == {AllResults(e)[i].tool_use_id : i \in 1..Len(AllResults(e))}

\* The tool invocations of execution e that have neither returned nor
\* raised.
OutstandingTools(e) ==
  LET answered == AnsweredIds(e)
  IN {k \in 1..Len(exec[e].calls) : exec[e].calls[k].id \notin answered}

\* The model requests of execution e that have neither been answered nor
\* failed.
OutstandingRequests(e) ==
  exec[e].requests - Len(exec[e].rounds) - Len(exec[e].failure)

\* Call k of execution e comes before call l in the order of rounds and,
\* within a round, of segments.
Earlier(e, k, l) ==
  LET a == exec[e].calls[k].id
      b == exec[e].calls[l].id
  IN a[1] < b[1] \/ (a[1] = b[1] /\ a[2] < b[2])

\* C22: an execution has at most one model request or tool invocation
\* outstanding; tool calls are invoked in the order of rounds and segments,
\* each after the one before it has returned or raised; and a model request
\* has been issued after a round only when every tool call of the round has
\* returned or raised.
C22_SingleThread ==
  \A e \in Execs :
    LET outstanding == OutstandingTools(e)
        inHistory == {HistoryResults(e)[i].tool_use_id : i \in 1..Len(HistoryResults(e))}
    IN /\ OutstandingRequests(e) \in {0, 1}
       /\ Cardinality(outstanding) + OutstandingRequests(e) <= 1
       /\ outstanding \subseteq {Len(exec[e].calls)}
       /\ \A k \in 1..(Len(exec[e].calls) - 1) : Earlier(e, k, k + 1)
       /\ \A k \in 1..Len(exec[e].calls) :
            exec[e].requests > exec[e].calls[k].id[1] => exec[e].calls[k].id \in inHistory

\* The second tool call of a round is outstanding and the first has
\* returned.
C22_Witness ==
  /\ Len(exec[1].calls) >= 2
  /\ OutstandingTools(1) = {Len(exec[1].calls)}
  /\ exec[1].calls[Len(exec[1].calls)].id[2] > 1
  /\ exec[1].calls[Len(exec[1].calls) - 1].id[1] = exec[1].calls[Len(exec[1].calls)].id[1]
  /\ OutstandingRequests(1) = 0

\* C23: the system directive of an execution says an integration is
\* connected for the principal exactly when tokenStore holds tokens for the
\* principal, and 'Not connected' otherwise.
C23_StatusAsStored ==
  \A e \in Execs :
    exec[e].pc # "idle" =>
      LET status == IF exec[e].userEmail \in DOMAIN tokenStore
                      THEN "Connected as " \o exec[e].userEmail
                      ELSE "Not connected"
      IN /\ exec[e].systemPrompt.gmail = status
         /\ exec[e].systemPrompt.calendar = status

\* The state of the execution whose handler locals are x. Initialization
\* (lines 387-425) has no await, so it ends in the step that issues the
\* first model request; the execution is terminal once it has written its
\* completion event.
PhaseOf(x) ==
  LET completes == {i \in 1..Len(x.events) : x.events[i].eventType = "complete"}
  IN IF completes # {}
       THEN (IF \E i \in completes : x.events[i].success THEN "COMPLETED" ELSE "FAILED")
     ELSE IF x.requests > 0 THEN "ITERATING"
     ELSE "INITIALIZING"

Terminal(x) == PhaseOf(x) \in {"COMPLETED", "FAILED"}

\* C24: an execution moves only from INITIALIZING to ITERATING and from
\* there to COMPLETED or FAILED; when it has written its completion event
\* the stream is closed, and from then on it issues no model request, invokes
\* no tool, sends no request to a provider and writes no event.
C24_Lifecycle ==
  /\ [](\A e \in Execs : Terminal(exec[e]) => exec[e].ended /\ OutstandingRequests(e) = 0)
  /\ [][\A e \in Execs :
          /\ <<PhaseOf(exec[e]), PhaseOf(exec'[e])>> \in
               {<<"INITIALIZING", "INITIALIZING">>, <<"INITIALIZING", "ITERATING">>,
                <<"ITERATING", "ITERATING">>, <<"ITERATING", "COMPLETED">>,
                <<"ITERATING", "FAILED">>, <<"COMPLETED", "COMPLETED">>,
                <<"FAILED", "FAILED">>}
          /\ Terminal(exec[e]) =>
               /\ exec'[e].events = exec[e].events
               /\ exec'[e].requests = exec[e].requests
               /\ exec'[e].calls = exec[e].calls
               /\ {r \in providerLog' : r.exec = e} = {r \in providerLog : r.exec = e}]_vars

\* An execution has ended COMPLETED after tool calls, with its stream
\* closed.
C24_Witness ==
  /\ PhaseOf(exec[1]) = "COMPLETED"
  /\ Len(exec[1].calls) > 0
  /\ exec[1].ended
  /\ LastEvent(1) = CompleteOk

\* The call of calendar.events.list that execution e awaits
AwaitedList(e) == exec[e].lists[Len(exec[e].lists)]

AwaitsCalendarList(e) ==
  exec[e].pc = "awaitTool" /\ AwaitedBlock(e).name = "get_calendar_events"

\* The week after the instant ms, in milliseconds
WeekAfter(ms) == ms + 604800000

\* C25 as stated: calendar.events.list gets the primary calendar and the
\* window from now to seven days later for the arguments the call does not
\* supply, and every argument the call supplies unchanged.
C25_Original ==
  \A e \in Execs :
    AwaitsCalendarList(e) =>
      LET input == AwaitedBlock(e).input
          r == AwaitedList(e)
      IN /\ r.call = AwaitedBlock(e).id
         /\ r.calendarId = IF Has(input, "calendarId") THEN input.calendarId ELSE "primary"
         /\ r.timeMin = IF Has(input, "timeMin") THEN input.timeMin ELSE ISOString(r.now)
         /\ r.timeMax = IF Has(input, "timeMax") THEN input.timeMax
                                                 ELSE ISOString(WeekAfter(r.now))

\* An argument of the awaited call is specified: supplied and not empty.
Specified(e, f) == Has(AwaitedBlock(e).input, f) /\ AwaitedBlock(e).input[f] # ""

\* C25: calendar.events.list gets the primary calendar and the window from
\* now to seven days later for the arguments the call leaves out or supplies
\* as the empty string, and every other supplied argument unchanged.
C25_CalendarDefaults ==
  \A e \in Execs :
    AwaitsCalendarList(e) =>
      LET input == AwaitedBlock(e).input
          r == AwaitedList(e)
      IN /\ r.call = AwaitedBlock(e).id
         /\ r.calendarId = IF Specified(e, "calendarId") THEN input.calendarId ELSE "primary"
         /\ r.timeMin = IF Specified(e, "timeMin") THEN input.timeMin ELSE ISOString(r.now)
         /\ r.timeMax = IF Specified(e, "timeMax") THEN input.timeMax
                                                   ELSE ISOString(WeekAfter(r.now))

\* The call with all three arguments has been made, and the call with an
\* empty calendar id, an empty lower bound and an upper bound is awaited.
C25_Witness ==
  /\ AwaitsCalendarList(1)
  /\ Len(exec[1].lists) = 2
  /\ AwaitedBlock(1).input.calendarId = ""
  /\ exec[1].lists[2].calendarId = "primary"
  /\ exec[1].lists[2].timeMin = ISOString(exec[1].lists[2].now)
  /\ exec[1].lists[2].timeMax = "2026-01-06T00:00:00.000Z"
  /\ exec[1].lists[1].calendarId = "team@example.com"
  /\ exec[1].lists[1].timeMin = "2026-01-05T00:00:00.000Z"
  /\ exec[1].lists[1].timeMax = "2026-01-06T00:00:00.000Z"

\* The names the tools array registers.
Registered == {tools[i] : i \in 1..Len(tools)}

\* The payload is the one of the default case of executeTool.
IsUnknownToolError(content, name) ==
  Has(content, "error") /\ content.error = "Unknown tool: " \o name

\* C26: the names of the registry are pairwise distinct, and no call of a
\* registered tool is answered with the 'Unknown tool' error.
C26_RegisteredDispatch ==
  /\ \A i, j \in 1..Len(tools) : i # j => tools[i] # tools[j]
  /\ \A e \in Execs :
       LET results == AllResults(e)
       IN \A k \in 1..Len(exec[e].calls), i \in 1..Len(results) :
            (/\ exec[e].calls[k].name \in Registered
             /\ results[i].tool_use_id = exec[e].calls[k].id) =>
              ~IsUnknownToolError(results[i].content, exec[e].calls[k].name)

\* A get_emails call and a log_progress call have been answered by their
\* handlers, and a web_search call by the default case.
C26_Witness ==
  /\ \E k \in 1..Len(exec[1].calls) :
       /\ exec[1].calls[k].name = "get_emails"
       /\ \E i \in EntriesFor(1, exec[1].calls[k].id) : Has(AllResults(1)[i].content, "emails")
  /\ \E k \in 1..Len(exec[1].calls) :
       /\ exec[1].calls[k].name = "log_progress"
       /\ \E i \in EntriesFor(1, exec[1].calls[k].id) : Has(AllResults(1)[i].content, "logged")
  /\ \E k \in 1..Len(exec[1].calls) :
       /\ exec[1].calls[k].name = "web_search"
       /\ \E i \in EntriesFor(1, exec[1].calls[k].id) :
            IsUnknownToolError(AllResults(1)[i].content, "web_search")

\* The success flags of the completion events execution e has written.
ServerCompletes(e) ==
  LET completes == SelectSeq(Events(e), LAMBDA ev : ev.eventType = "complete")
  IN [i \in 1..Len(completes) |-> completes[i].success]

\* C27: when executeAgentTask is over, onComplete has been called exactly
\* once: with the success flag of the server's completion event when the
\* stream was read to its end, with false when the request or the stream
\* failed.
C27_CompleteOnce ==
  \A e \in Execs :
    /\ client[e].pc = "returned" =>
         Len(client[e].completes) = 1 /\ client[e].completes = ServerCompletes(e)
    /\ client[e].pc = "caught" => client[e].completes = <<FALSE>>
\* The executions the calls of the modal's run stand behind: agent k of the
\* run is behind execution RunFirst + k.
RunFirst == modal.run.e - modal.run.i

RunExecs ==
  IF modal.run.pc \in {"awaitAgent", "done"} THEN (RunFirst + 1)..modal.run.e ELSE {}

\* C28: once a run with one or more agents has started and the server is
\* healthy, the modal eventually leaves IN_PROGRESS: isProcessing is false
\* and the status is COMPLETED or FAILED.
C28_RunEnds ==
  (modal.run.pc = "awaitAgent")
    ~> (~modal.isProcessing /\ modal.status \in {"COMPLETED", "FAILED"})

\* The place of an agent in the agents list
PlaceOf(agentId) == CHOOSE k \in 1..Len(MOCK_AGENTS) : MOCK_AGENTS[k].id = agentId

\* onComplete of the call behind execution e has been called
CompletionFired(e) == client[e].completes # <<>>

\* C29: the selected agents run one after another in the order of the list
\* of selected agents (agents.filter: the order of the agents list): the
\* request for the next agent is not sent before the completion callback
\* of the one before it has fired, and the final status is COMPLETED if and
\* only if every completion reported success.
C29_OneAfterAnother ==
  /\ \A e \in RunExecs :
       /\ includes(modal.run.selectedAgentIds, modal.requests[e].agentId)
       /\ \A d \in RunExecs :
            d < e => /\ PlaceOf(modal.requests[d].agentId) < PlaceOf(modal.requests[e].agentId)
                     /\ CompletionFired(d)
  /\ modal.run.pc = "done" =>
       /\ \A j \in 1..Len(modal.run.selectedAgentIds) :
            \E e \in RunExecs : modal.requests[e].agentId = modal.run.selectedAgentIds[j]
       /\ \A e \in RunExecs : CompletionFired(e)
       /\ modal.run.finalStatus \in {"COMPLETED", "FAILED"}
       /\ modal.run.finalStatus = "COMPLETED"
            <=> \A e \in RunExecs : \A j \in 1..Len(client[e].completes) : client[e].completes[j]

\* A run of two agents, picked in the other order than the agents list has
\* them, has ended after both completions.
C29_Witness ==
  /\ modal.run.pc = "done"
  /\ modal.run.selectedAgentIds = <<"agent-2", "agent-1">>
  /\ Len(modal.requests) = 2
  /\ modal.requests[1].agentId = "agent-1"
  /\ modal.requests[2].agentId = "agent-2"
  /\ modal.run.finalStatus = "FAILED"
  /\ exec[1].ended

HasId(events, id) == \E i \in 1..Len(events) : events[i].id = id

\* The step in which a run calls onSave
RunSaves == modal.run.pc = "awaitAgent" /\ modal'.run.pc = "done"

\* C30: within one page load no event comes back into the event list once
\* it has left it (an id enters the list only when its event is created),
\* and the onSave of a run keeps every other event of the list as it is.
C30_DeletedStaysDeleted ==
  [][/\ \A i \in 1..Len(app'.events) :
          HasId(app.events, app'.events[i].id) \/ app'.created > app.created
     /\ RunSaves =>
          \A i \in 1..Len(app.events) :
            app.events[i].id # modal.run.event[1].id => includes(app'.events, app.events[i])]_vars

\* The step is the reply of an /auth route
Replied(route) == auth'.calls = auth.calls + 1 /\ auth'.last.route = route

\* In this step execution e starts a Gmail or Calendar tool invocation for a
\* principal that has no entry in the token store.
StartsUnconnected(e) ==
  /\ Len(exec'[e].calls) = Len(exec[e].calls) + 1
  /\ NeedsGoogle(exec'[e].calls[Len(exec'[e].calls)].name)
  /\ exec[e].userEmail \notin DOMAIN tokenStore

\* C31: a disconnect removes exactly the entry of its principal and reports
\* success if and only if the entry existed, the other entries are
\* unchanged; /auth/status reports a principal without an entry as
\* unauthenticated; and a Gmail or Calendar tool invocation that starts for
\* a principal without an entry sends no request to the provider and
\* returns the not-connected error.
C31_Disconnect ==
  [][/\ Replied("disconnect") =>
          /\ auth'.last.ok <=> auth'.last.email \in DOMAIN tokenStore
          /\ DOMAIN tokenStore' = DOMAIN tokenStore \ {auth'.last.email}
          /\ \A k \in DOMAIN tokenStore' : tokenStore'[k] = tokenStore[k]
     /\ Replied("status") =>
          /\ auth'.last.ok <=> auth'.last.email \in DOMAIN tokenStore
          /\ tokenStore' = tokenStore
     /\ \A e \in Execs :
          StartsUnconnected(e) =>
            /\ providerLog' = providerLog
            /\ exec'[e].pc = "blocks"
            /\ LET entry == exec'[e].toolResults[Len(exec'[e].toolResults)]
               IN /\ entry.tool_use_id = exec'[e].calls[Len(exec'[e].calls)].id
                  /\ DOMAIN entry.content = {"error"}
                  /\ entry.content.error \in NotConnectedWording]_vars

\* An execution of a connected principal made a request to the provider,
\* the principal was then disconnected with success, asked for its status
\* and was reported unauthenticated, and a later tool invocation of the same
\* execution was answered as not connected.
C31_Witness ==
  /\ auth.last = [route |-> "status", email |-> exec[1].userEmail, ok |-> FALSE]
  /\ auth.calls = 2
  /\ DOMAIN tokenStore = Principals \ {exec[1].userEmail}
  /\ \E r \in providerLog : r.exec = 1
  /\ \E k \in 1..Len(exec[1].calls) :
       /\ exec[1].calls[k].connected
       /\ \E l \in (k + 1)..Len(exec[1].calls) :
            NeedsGoogle(exec[1].calls[l].name) /\ ~exec[1].calls[l].connected

\* C32: whatever the interleaving of the OAuth callbacks and the tool
\* invocations, the token store entry keyed by an email holds the tokens
\* issued for that account's own authorization code.
C32_OwnTokens ==
  \A email \in DOMAIN tokenStore :
    /\ tokenStore[email].tokens = TokensOf(email)
    /\ tokenStore[email].userInfo.email = email

\* Two callbacks overlapped: while the first awaited its userinfo answer the
\* shared client was given the other account's credentials, and both have
\* stored their entry; the execution has made a tool request meanwhile.
C32_Witness ==
  /\ auth.cb[1].pc = "redirected"
  /\ auth.cb[1].code = "q@example.com"
  /\ auth.cb[1].held = TokensOf("p@example.com")
  /\ auth.cb[2].pc = "redirected"
  /\ auth.cb[2].code = "p@example.com"
  /\ DOMAIN tokenStore = Principals
  /\ \E r \in providerLog : r.exec = 1

\* The turns of a history alternate user, assistant, user, ...
Alternates(history) ==
  \A i \in 1..Len(history) :
    history[i].role = (IF i % 2 = 1 THEN "user" ELSE "assistant")

\* C33: the history of the k-th model request of an execution has
\* 1 + 2 * (k - 1) turns, its roles alternate from a user turn to a user
\* turn, and no history has more than 21 turns.
C33_HistoryShape ==
  \A e \in Execs :
    /\ \A k \in 1..Len(Sent(e)) :
         LET history == Sent(e)[k].messages
         IN /\ Len(history) = 1 + 2 * (k - 1)
            /\ Alternates(history)
            /\ history[Len(history)].role = "user"
            /\ Len(history) <= 21
    /\ Alternates(exec[e].messages)
    /\ Len(exec[e].messages) <= 21

\* The tenth request was made with 19 turns, and its round has brought the
\* history to 21.
C33_Witness ==
  /\ Len(Sent(1)) = 10
  /\ Len(Sent(1)[10].messages) = 19
  /\ Len(exec[1].messages) = 21
  /\ exec[1].messages[21].role = "user"
  /\ exec[1].pc = "done"

\* The step in which the health check of a run is answered
HealthAnswered == modal.run.pc = "awaitHealth" /\ modal'.run.pc # "awaitHealth"

\* C34: when the health check of a run fails or reports the model provider
\* as not configured, the run calls executeAgentTask for no agent, the
\* modal shows exactly one log, an error, its status is FAILED and
\* isProcessing is false.
C34_Unavailable ==
  /\ [][(/\ HealthAnswered
          /\ (~modal'.run.health.answered \/ ~modal'.run.health.anthropicConfigured))
        => /\ modal'.requests = modal.requests
           /\ Len(modal'.logs) = 1
           /\ modal'.logs[1].type = "error"
           /\ modal'.status = "FAILED"
           /\ ~modal'.isProcessing
           /\ modal'.run.pc = "unavailable"]_vars
  /\ [](modal.run.pc = "unavailable" => modal.run.i = 0 /\ modal.run.e = 0)

\* The server answered the health check without a configured model
\* provider, and the run of two agents has stopped before its first call.
C34_Witness ==
  /\ modal.run.pc = "unavailable"
  /\ modal.run.health = [answered |-> TRUE, anthropicConfigured |-> FALSE]
  /\ Len(modal.run.selectedAgents) = 2
  /\ modal.requests = <<>>
  /\ modal.status = "FAILED"
  /\ ~modal.isProcessing
  /\ Len(modal.logs) = 1

\* What the callbacks of a client have been called with, and what its
\* buffer holds
Parsed(c) ==
  [logs |-> c.logs, completes |-> c.completes, logCounter |-> c.logCounter,
   buffer |-> c.buffer]

\* C35: whatever chunks the characters read so far arrived in, the client
\* has dispatched the records that reading them as one chunk dispatches, in
\* the same order, each once.
C35_ChunkingIndependent ==
  LET c == client[1]
  IN Parsed(c) = Parsed(Consume(IdleClient, SubSeq(c.stream, 1, c.offset)))

\* A body of two records and an unfinished third was read to its end in
\* five chunks; both records were dispatched, the third is in the buffer.
C35_Witness ==
  /\ client[1].pc = "returned"
  /\ client[1].chunks = 5
  /\ client[1].stream =
       DataPrefix \o JsonText("1") \o <<LF>> \o DataPrefix \o JsonText("2") \o <<LF>>
         \o DataPrefix \o JsonText("2")
  /\ Len(client[1].logs) = 1
  /\ client[1].completes = <<TRUE>>
  /\ client[1].buffer = DataPrefix \o JsonText("2")

\* C36: deserializeEvents(serializeEvents(E)) is E: the same events in the
\* same order, with their ids, titles, statuses, categories and logs, and
\* start and end instants equal to the originals.
C36_RoundTrip ==
  LET E == app.events
      back == deserializeEvents(serializeEvents(E))
  IN /\ Len(back) = Len(E)
     /\ \A i \in 1..Len(E) :
          /\ back[i].id = E[i].id
          /\ back[i].title = E[i].title
          /\ back[i].status = E[i].status
          /\ back[i].category = E[i].category
          /\ back[i].logs = E[i].logs
          /\ back[i].start.time = E[i].start.time
          /\ back[i].end.time = E[i].end.time
     /\ back = E

\* The reopened page shows two events read back from the stored text,
\* one starting at 14:30:15.250 and one ending on the second day.
C36_Witness ==
  /\ app.pc = "mounted"
  /\ Len(app.events) = 2
  /\ app.storage = <<serializeEvents(app.events)>>
  /\ app.events[1].start.time = 52215250
  /\ app.storage[1][1].start.sss = 250
  /\ app.events[2].end.time = 86400001
  /\ app.storage[1][2].end.day = 1
  /\ Has(app.events[2], "agentId")
  /\ app.events[1].logs # <<>>

====
